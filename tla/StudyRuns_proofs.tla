-------------------------- MODULE StudyRuns_proofs --------------------------
(***************************************************************************)
(* Proofs about the study sessions: the inductive invariants of the        *)
(* learner store (StoreInd), of the quiz and its turns (QuizInd) and of    *)
(* the audit events (AuditInd), and what follows from them.                *)
(***************************************************************************)
EXTENDS StudyRuns, FiniteSetTheorems, SequenceTheorems, WellFoundedInduction, TLAPS

(* Numbers in order.                                                         *)

LEMMA LeastOf ==
  ASSUME NEW S \in SUBSET Nat, S # {}
  PROVE  \E m \in S : \A n \in S : m <= n
<1> DEFINE Less == OpToRel(<, Nat)
<1>1. IsWellFoundedOn(Less, Nat)
  BY NatLessThanWellFounded
<1>2. ASSUME NEW m \in Nat, NEW n \in Nat, n < m PROVE <<n, m>> \in Less
  BY <1>2 DEF OpToRel
<1> HIDE DEF Less
<1>3. PICK m \in S : \A n \in S : ~ (<<n, m>> \in Less)
  BY <1>1, WFMin
<1>4. ASSUME NEW n \in S PROVE m <= n
  <2>1. m \in Nat /\ n \in Nat
    OBVIOUS
  <2>2. ~ (n < m)
    BY <1>2, <1>3, <2>1
  <2> QED BY <2>1, <2>2
<1> QED BY <1>4

(* A sequence that lists S, which has n members, from the smallest up.       *)
Ascends(q, n) == \A i, j \in 1..n : i < j => q[i] < q[j]
Ordering(q, S, n) == q \in [1..n -> S] /\ Ascends(q, n)

\* The least number comes before an ordering of the others.
LEMMA OrderingPrepended ==
  ASSUME NEW S \in SUBSET Nat, NEW n \in Nat, NEW x \in S, \A y \in S : x <= y,
         NEW q, Ordering(q, S \ {x}, n)
  PROVE  \E p : Ordering(p, S, n + 1)
<1> DEFINE p == [i \in 1..(n + 1) |-> IF i = 1 THEN x ELSE q[i - 1]]
<1>1. ASSUME NEW i \in 1..(n + 1), i # 1
      PROVE  i - 1 \in 1..n /\ p[i] = q[i - 1] /\ p[i] \in S /\ p[i] # x /\ p[i] \in Nat
  <2>1. i - 1 \in 1..n /\ p[i] = q[i - 1]
    BY <1>1
  <2> QED BY <2>1 DEF Ordering
<1>2. p \in [1..(n + 1) -> S]
  BY <1>1
<1>3. 1 \in 1..(n + 1) /\ p[1] = x /\ x \in Nat
  OBVIOUS
<1> HIDE DEF p
<1>4. ASSUME NEW i \in 1..(n + 1), NEW j \in 1..(n + 1), i < j
      PROVE  p[i] < p[j]
  <2>1. CASE i = 1
    <3>1. p[j] \in S /\ p[j] # x /\ p[j] \in Nat
      BY <1>1, <1>4, <2>1
    <3>2. x <= p[j]
      BY <3>1
    <3> QED BY <1>3, <2>1, <3>1, <3>2
  <2>2. CASE i # 1
    <3>1. j # 1 /\ i - 1 < j - 1
      BY <1>4, <2>2
    <3>2. q[i - 1] < q[j - 1]
      BY <1>1, <2>2, <3>1 DEF Ordering, Ascends
    <3> QED BY <1>1, <2>2, <3>1, <3>2
  <2> QED BY <2>1, <2>2
<1>5. Ordering(p, S, n + 1)
  BY <1>2, <1>4 DEF Ordering, Ascends
<1> QED BY <1>5

(* Every finite set of numbers has an ordering: there is no smallest number  *)
(* of members for which one has none.                                        *)
LEMMA OrderingExists ==
  ASSUME NEW S \in SUBSET Nat, IsFiniteSet(S)
  PROVE  \E q : Ordering(q, S, Cardinality(S))
<1> DEFINE Without(T) == ~\E q : Ordering(q, T, Cardinality(T))
           Bad == {n \in Nat : \E T \in SUBSET Nat :
                     IsFiniteSet(T) /\ Cardinality(T) = n /\ Without(T)}
<1>1. ASSUME Bad # {} PROVE FALSE
  <2>1. PICK n \in Bad : \A m \in Bad : n <= m
    BY <1>1, LeastOf
  <2>2. PICK T \in SUBSET Nat : IsFiniteSet(T) /\ Cardinality(T) = n /\ Without(T)
    BY <2>1
  <2>3. CASE T = {}
    <3>1. Cardinality(T) = 0
      BY <2>3, FS_EmptySet
    <3>2. Ordering([i \in 1..0 |-> i], T, 0)
      BY <2>3 DEF Ordering, Ascends
    <3> QED BY <2>2, <3>1, <3>2
  <2>4. CASE T # {}
    <3>1. PICK x \in T : \A y \in T : x <= y
      BY <2>4, LeastOf
    <3>2. IsFiniteSet(T \ {x}) /\ Cardinality(T \ {x}) = n - 1
      BY <2>2, FS_RemoveElement
    <3>3. n - 1 \in Nat
      BY <3>2, FS_CardinalityType
    <3>4. n - 1 \notin Bad
      BY <2>1, <3>3
    <3>5. ~Without(T \ {x})
      BY <3>2, <3>3, <3>4
    <3>6. PICK q : Ordering(q, T \ {x}, n - 1)
      BY <3>2, <3>5
    <3>7. \E p : Ordering(p, T, (n - 1) + 1)
      <4> HIDE DEF Without, Bad
      <4> QED BY <3>1, <3>3, <3>6, OrderingPrepended
    <3>8. (n - 1) + 1 = n
      BY <2>1
    <3> QED BY <2>2, <3>7, <3>8
  <2> QED BY <2>3, <2>4
<1>2. Cardinality(S) \in Nat
  BY FS_CardinalityType
<1>3. Cardinality(S) \notin Bad
  BY <1>1
<1> QED BY <1>2, <1>3

\* InOrder lists its set: every member, ascending.
LEMMA InOrderLists ==
  ASSUME NEW S \in SUBSET Nat, IsFiniteSet(S)
  PROVE  /\ Cardinality(S) \in Nat
         /\ InOrder(S) \in [1..Cardinality(S) -> S]
         /\ Ascends(InOrder(S), Cardinality(S))
         /\ \A x \in S : \E i \in 1..Cardinality(S) : InOrder(S)[i] = x
<1> DEFINE n == Cardinality(S)
<1>1. n \in Nat
  BY FS_CardinalityType
<1>2. \E q \in [1..n -> S] : \A i, j \in 1..n : i < j => q[i] < q[j]
  BY OrderingExists DEF Ordering, Ascends
<1>3. InOrder(S) \in [1..n -> S] /\ \A i, j \in 1..n : i < j => InOrder(S)[i] < InOrder(S)[j]
  BY <1>2 DEF InOrder
<1> HIDE DEF n
<1>4. Ascends(InOrder(S), n)
  BY <1>3 DEF Ascends
<1> DEFINE q == InOrder(S)
<1>5. q \in [1..n -> S] /\ \A i, j \in 1..n : i < j => q[i] < q[j]
  BY <1>3
<1> HIDE DEF q
<1>6. ASSUME NEW i \in 1..n, NEW j \in 1..n, q[i] = q[j] PROVE i = j
  <2>1. q[i] \in Nat /\ q[j] \in Nat
    BY <1>5
  <2>2. ~(i < j) /\ ~(j < i)
    BY <1>5, <1>6, <2>1
  <2> QED BY <1>1, <2>2
<1>7. q \in Injection(1..n, S)
  BY <1>5, <1>6 DEF Injection, IsInjective
<1>8. Cardinality(1..n) = n
  BY <1>1, FS_Interval
<1>9. q \in Surjection(1..n, S)
  <2>1. Cardinality(1..n) = Cardinality(S)
    BY <1>8 DEF n
  <2> QED BY <1>7, <2>1, FS_Injection
<1>10. \A x \in S : \E i \in 1..n : q[i] = x
  BY <1>9 DEF Surjection
<1> QED BY <1>1, <1>3, <1>4, <1>10 DEF n, q

(* What one teaching turn decides.                                           *)

LEMMA RuleChosen ==
  ASSUME NEW s
  PROVE  /\ Decisive(s) \in 1..13
         /\ Rules(s)[Decisive(s)].if
         /\ \A j \in 1..(Decisive(s) - 1) : ~Rules(s)[j].if
<1> DEFINE applies == {i \in 1..13 : Rules(s)[i].if}
<1>1. DOMAIN Rules(s) = 1..13
  BY DEF Rules
<1>2. 13 \in applies
  BY DEF Rules
<1>3. PICK i \in applies : \A j \in applies : i <= j
  <2>1. applies \in SUBSET Nat /\ applies # {}
    BY <1>2
  <2> HIDE DEF applies
  <2> QED BY <2>1, LeastOf
<1>4. ASSUME NEW j \in 1..(i - 1) PROVE ~Rules(s)[j].if
  <2>1. j \in 1..13 /\ ~(i <= j)
    BY <1>3, <1>4
  <2> QED BY <1>3, <2>1
<1>5. \E k \in DOMAIN Rules(s) : Rules(s)[k].if /\ \A j \in 1..(k - 1) : ~Rules(s)[j].if
  BY <1>1, <1>3, <1>4
<1>6. Decisive(s) \in DOMAIN Rules(s)
      /\ Rules(s)[Decisive(s)].if /\ \A j \in 1..(Decisive(s) - 1) : ~Rules(s)[j].if
  BY <1>5 DEF Decisive
<1> QED BY <1>1, <1>6

\* A correction is decided only at the last hint level, or of a confusion.
LEMMA Decided ==
  ASSUME NEW s
  PROVE  /\ DecideAction(s) \in Actions \cup {"end"}
         /\ DecideAction(s) = "end" => s.stopped
         /\ DecideAction(s) = "correct" =>
              s.level >= HintMaxLevel \/ s.misconceptions >= MisconceptionLimit
<1> DEFINE i == Decisive(s)
<1>1. i \in 1..13 /\ Rules(s)[i].if
  BY RuleChosen
<1>2. DecideAction(s) = Rules(s)[i].do
  BY DEF DecideAction
<1> HIDE DEF i
<1>3. \/ i = 1 \/ i = 2 \/ i = 3 \/ i = 4 \/ i = 5 \/ i = 6 \/ i = 7
      \/ i = 8 \/ i = 9 \/ i = 10 \/ i = 11 \/ i = 12 \/ i = 13
  BY <1>1
<1>4. /\ Rules(s)[1].if = s.stopped /\ Rules(s)[1].do = "end"
      /\ Rules(s)[2].do = "reflect" /\ Rules(s)[3].do = "reflect"
      /\ Rules(s)[4].do = "hint" /\ Rules(s)[5].do = "ask" /\ Rules(s)[6].do = "test"
      /\ Rules(s)[7].do = "correct" /\ Rules(s)[8].do = "correct"
      /\ Rules(s)[9].do = "hint" /\ Rules(s)[10].do = "reflect" /\ Rules(s)[11].do = "test"
      /\ Rules(s)[12].do = "teach" /\ Rules(s)[13].do = "ask"
  BY DEF Rules
<1>5. /\ Rules(s)[7].if => s.level >= HintMaxLevel
      /\ Rules(s)[8].if => s.misconceptions >= MisconceptionLimit
  BY DEF Rules
<1> QED BY <1>1, <1>2, <1>3, <1>4, <1>5 DEF Actions

\* next_hint_level goes up by one at most.
LEMMA LevelsClimb ==
  ASSUME NEW level \in 0..HintMaxLevel, NEW streak \in Nat
  PROVE  NextHintLevel(level, streak) \in 1..HintMaxLevel
         /\ NextHintLevel(level, streak) <= level + 1
BY LimitAssumption DEF NextHintLevel

\* A turn of a learner who has not stopped: where its action takes the level.
LEMMA TurnTaken ==
  ASSUME NEW s, ~s.stopped, s.level \in 0..HintMaxLevel, s.misconceptions \in 0..1,
         s.streak \in Nat, s.turns \in 0..MaxTurns, s.band \in Bands,
         MisconceptionLimit > 1
  PROVE  LET did == TeachingTurn(s)
         IN  /\ did.action \in Actions
             /\ did.level \in 0..HintMaxLevel
             /\ did.turns \in 0..MaxTurns
             /\ did.action = "hint" => did.level \in 1..(s.level + 1)
             /\ did.action = "correct" => did.level = 0 /\ s.level >= HintMaxLevel
             /\ did.action \notin {"hint", "correct"} => did.level = s.level
<1> DEFINE action == Route(s, Assess(s))
<1>1. TeachingTurn(s) = [action |-> action, level |-> LevelAfter(s, action), turns |-> NextTurn(s)]
  BY DEF TeachingTurn
<1>2. ByMastery(s) \in {"teach", "hint", "ask", "test"} \/ s.band = "none"
  BY DEF ByMastery, Bands
<1>3. DecideAction(s) \in Actions /\ (DecideAction(s) = "correct" => s.level >= HintMaxLevel)
  <2>1. s.misconceptions < MisconceptionLimit
    BY LimitAssumption
  <2> QED BY <2>1, Decided, LimitAssumption
<1>4. Assess(s) \in Actions /\ (Assess(s) = "correct" => s.level >= HintMaxLevel)
  <2>1. CASE Assess(s) = DecideAction(s)
    BY <1>3, <2>1
  <2>2. CASE Assess(s) = "reflect"
    BY <2>2 DEF Actions
  <2>3. CASE s.band # "none" /\ Assess(s) = ByMastery(s)
    BY <1>2, <2>3 DEF Actions
  <2> QED BY <2>1, <2>2, <2>3 DEF Assess
<1>5. action \in Actions /\ (action = "correct" => s.level >= HintMaxLevel)
  BY <1>4 DEF Route, Actions
<1>6. NextTurn(s) \in 0..MaxTurns
  BY LimitAssumption DEF NextTurn
<1>7. /\ HintLevel(s) \in 1..HintMaxLevel /\ HintLevel(s) <= s.level + 1
  <2>1. PICK k \in Nat : HintLevel(s) = NextHintLevel(s.level, k)
    BY DEF HintLevel
  <2> QED BY <2>1, LevelsClimb
<1> HIDE DEF action
<1>8. /\ action = "hint" => LevelAfter(s, action) = HintLevel(s)
      /\ action = "correct" => LevelAfter(s, action) = 0
      /\ action \notin {"hint", "correct"} => LevelAfter(s, action) = s.level
  BY DEF LevelAfter
<1>9. LevelAfter(s, action) \in 0..HintMaxLevel
  BY <1>7, <1>8, LimitAssumption
<1> QED BY <1>1, <1>5, <1>6, <1>7, <1>8, <1>9, LimitAssumption

(* The learner store.                                                        *)

LEMMA KeyIsKey ==
  ASSUME NEW c \in Concepts, NEW p \in Snapshots
  PROVE  Key(c, p) \in Keys /\ Key(c, p).concept = c
BY DEF Key, Keys, Snapshots

\* The estimate of a key, in words of its own.
LEMMA FoldOf ==
  ASSUME StoreInd, NEW k \in Keys
  PROVE  /\ estimates[k] \in Seq(Nat)
         /\ \A i, j \in DOMAIN estimates[k] : i < j => estimates[k][i] < estimates[k][j]
         /\ \A i \in DOMAIN estimates[k] : \E a \in attempts :
              a.eligible /\ a.concept = k.concept /\ a.id = estimates[k][i]
         /\ \A a \in attempts :
              a.eligible /\ a.concept = k.concept /\ Key(k.concept, a.snapshot) = k =>
                \E i \in DOMAIN estimates[k] : estimates[k][i] = a.id
<1>1. estimates[k] \in Seq(Nat)
  BY DEF StoreInd, StoreTypeOK
<1> QED BY <1>1 DEF StoreInd, EstimateIsFold

\* The same, to establish it.
LEMMA FoldIntro ==
  ASSUME NEW ids, NEW as, NEW k,
         \A i, j \in DOMAIN ids : i < j => ids[i] < ids[j],
         \A i \in DOMAIN ids : \E a \in as :
           a.eligible /\ a.concept = k.concept /\ a.id = ids[i],
         \A a \in as :
           a.eligible /\ a.concept = k.concept /\ Key(k.concept, a.snapshot) = k =>
             \E i \in DOMAIN ids : ids[i] = a.id
  PROVE  LET of == {a \in as : a.eligible /\ a.concept = k.concept}
         IN  /\ \A i, j \in DOMAIN ids : i < j => ids[i] < ids[j]
             /\ \A i \in DOMAIN ids : \E a \in of : a.id = ids[i]
             /\ \A a \in of : Key(k.concept, a.snapshot) = k
                                => \E i \in DOMAIN ids : ids[i] = a.id
OBVIOUS

\* The attempt an observation is of.
LEMMA ObservedAttempt ==
  ASSUME StoreInd, NEW o \in observations
  PROVE  /\ o.key \in Keys /\ o.attempt \in 1..made /\ o.count \in Nat
         /\ o.count \in DOMAIN estimates[o.key] /\ estimates[o.key][o.count] = o.attempt
         /\ AttemptOf(o.attempt) \in attempts
         /\ AttemptOf(o.attempt).id = o.attempt
         /\ AttemptOf(o.attempt).eligible
         /\ AttemptOf(o.attempt).concept = o.key.concept
<1>1. o.key \in Keys /\ o.attempt \in 1..made /\ o.count \in Nat
  BY DEF StoreInd, StoreTypeOK
<1>2. o.count \in DOMAIN estimates[o.key] /\ estimates[o.key][o.count] = o.attempt
  BY DEF StoreInd, EstimateIsFold
<1>3. PICK a \in attempts : a.eligible /\ a.concept = o.key.concept /\ a.id = o.attempt
  BY <1>1, <1>2, FoldOf
<1>4. AttemptOf(o.attempt) \in attempts /\ AttemptOf(o.attempt).id = o.attempt
  BY <1>3 DEF AttemptOf
<1>5. AttemptOf(o.attempt) = a
  BY <1>3, <1>4 DEF StoreInd, Numbered
<1> QED BY <1>1, <1>2, <1>3, <1>4, <1>5

LEMMA AttemptFields ==
  ASSUME StoreInd, NEW a \in attempts
  PROVE  /\ a.id \in 1..made /\ a.id \in Nat /\ a.id <= made /\ made \in Nat
         /\ a.session \in Sessions /\ a.item \in Items
         /\ a.concept \in Concepts \cup {NoConcept} /\ a.snapshot \in Snapshots
         /\ a.eligible \in BOOLEAN
<1>1. made \in Nat /\ a \in Attempts
  BY DEF StoreInd, StoreTypeOK
<1> QED BY <1>1 DEF Attempts

LEMMA RecordedFields ==
  ASSUME NEW a \in Answers
  PROVE  LET b == Recorded(a)
         IN  /\ b.id = made + 1 /\ b.session = a.session /\ b.item = a.item
             /\ b.concept = a.concept /\ b.snapshot = a.snapshot
             /\ b.eligible = Eligible(a)
             /\ a.session \in Sessions /\ a.item \in Items /\ a.snapshot \in Snapshots
             /\ a.concept \in Concepts \cup {NoConcept}
             /\ Eligible(a) \in BOOLEAN
             /\ Eligible(a) => a.concept \in Concepts
<1>1. Eligible(a) \in BOOLEAN
  BY DEF Eligible
<1>2. Eligible(a) => a.concept # NoConcept
  BY DEF Eligible
<1>3. a.session \in Sessions /\ a.item \in Items /\ a.snapshot \in Snapshots
      /\ a.concept \in Concepts \cup {NoConcept}
  BY DEF Answers
<1> QED BY <1>1, <1>2, <1>3 DEF Recorded

\* record_attempt: what it does to the tables, in equations.
LEMMA RecordEquations ==
  ASSUME NEW a \in Answers, RecordAttempt(a)
  PROVE  LET k == Key(a.concept, a.snapshot)
         IN  /\ made' = made + 1
             /\ attempts' = attempts \cup {Recorded(a)}
             /\ outbox' = outbox \cup {[event |-> made + 1, session |-> a.session, delivered |-> FALSE]}
             /\ Eligible(a) =>
                  /\ estimates' = [estimates EXCEPT ![k] = Append(@, made + 1)]
                  /\ observations' = observations \cup
                       {[attempt |-> made + 1, key |-> k, count |-> Len(estimates[k]) + 1]}
             /\ ~Eligible(a) => estimates' = estimates /\ observations' = observations
BY DEF RecordAttempt

\* record_attempt keeps the tables typed, the ids unique and a question's evidence
\* single.
LEMMA RecordTyped ==
  ASSUME StoreInd, NEW a \in Answers, RecordAttempt(a)
  PROVE  StoreTypeOK' /\ Numbered' /\ EvidenceOnce'
<1> DEFINE b == Recorded(a)
           k == Key(a.concept, a.snapshot)
<1>1. made \in Nat /\ made' = made + 1 /\ made' \in Nat
  BY RecordEquations DEF StoreInd, StoreTypeOK
<1>2. attempts' = attempts \cup {b}
  BY RecordEquations
<1>3. b.id = made + 1 /\ b.item = a.item /\ b.eligible = Eligible(a)
  BY RecordedFields
<1>4. b \in [id : 1..(made + 1), session : Sessions, item : Items,
             concept : Concepts \cup {NoConcept}, correct : BOOLEAN,
             snapshot : Snapshots, eligible : BOOLEAN]
  <2> DEFINE e == Eligible(a)  right == a.grade = "right"
  <2>1. e \in BOOLEAN /\ right \in BOOLEAN
    BY RecordedFields
  <2>2. b = [id |-> made + 1, session |-> a.session, item |-> a.item, concept |-> a.concept,
             correct |-> right, snapshot |-> a.snapshot, eligible |-> e]
    BY DEF Recorded
  <2> HIDE DEF e, right, b
  <2> QED BY <1>1, <2>1, <2>2, RecordedFields
<1>5. attempts' \subseteq Attempts'
  <2>1. ASSUME NEW x \in attempts PROVE x \in Attempts'
    <3>1. x \in Attempts
      BY DEF StoreInd, StoreTypeOK
    <3> QED BY <1>1, <3>1 DEF Attempts
  <2>2. b \in Attempts'
    BY <1>1, <1>4 DEF Attempts
  <2> QED BY <1>2, <2>1, <2>2
<1>6. estimates' \in [Keys -> Seq(Nat)]
  <2>1. estimates \in [Keys -> Seq(Nat)]
    BY DEF StoreInd, StoreTypeOK
  <2>2. CASE Eligible(a)
    <3>1. k \in Keys
      BY <2>2, RecordedFields, KeyIsKey
    <3>2. estimates' = [estimates EXCEPT ![k] = Append(@, made + 1)]
      BY <2>2, RecordEquations
    <3>3. Append(estimates[k], made + 1) \in Seq(Nat)
      BY <1>1, <2>1, <3>1
    <3> QED BY <2>1, <3>1, <3>2, <3>3
  <2> QED BY <2>1, <2>2, RecordEquations
<1>7. observations' \subseteq [attempt : 1..made', key : Keys, count : Nat]
  <2>1. ASSUME NEW o \in observations PROVE o \in [attempt : 1..made', key : Keys, count : Nat]
    <3>1. o \in [attempt : 1..made, key : Keys, count : Nat]
      BY DEF StoreInd, StoreTypeOK
    <3> QED BY <1>1, <3>1
  <2>2. CASE Eligible(a)
    <3>1. k \in Keys
      BY <2>2, RecordedFields, KeyIsKey
    <3>2. Len(estimates[k]) \in Nat
      BY <3>1 DEF StoreInd, StoreTypeOK
    <3>3. observations' = observations \cup
            {[attempt |-> made + 1, key |-> k, count |-> Len(estimates[k]) + 1]}
      BY <2>2, RecordEquations
    <3> HIDE DEF k
    <3> QED BY <1>1, <2>1, <3>1, <3>2, <3>3
  <2> QED BY <2>1, <2>2, RecordEquations
<1>8. outbox' \subseteq [event : 1..made', session : Sessions, delivered : BOOLEAN]
  <2>1. ASSUME NEW r \in outbox PROVE r \in [event : 1..made', session : Sessions, delivered : BOOLEAN]
    <3>1. r \in [event : 1..made, session : Sessions, delivered : BOOLEAN]
      BY DEF StoreInd, StoreTypeOK
    <3> QED BY <1>1, <3>1
  <2> DEFINE row1 == [event |-> made + 1, session |-> a.session, delivered |-> FALSE]
  <2>2. row1 \in [event : 1..made', session : Sessions, delivered : BOOLEAN]
    BY <1>1, RecordedFields
  <2>3. outbox' = outbox \cup {row1}
    BY RecordEquations
  <2> HIDE DEF row1
  <2> QED BY <2>1, <2>2, <2>3
<1>9. Numbered'
  <2>1. ASSUME NEW x \in attempts PROVE x.id # b.id
    BY <1>1, <1>3, AttemptFields
  <2> HIDE DEF b
  <2>2. \A x, y \in attempts : x.id = y.id => x = y
    BY DEF StoreInd, Numbered
  <2> QED BY <1>2, <2>1, <2>2 DEF Numbered
<1>10. EvidenceOnce'
  <2>1. ASSUME NEW x \in attempts, b.eligible PROVE x.item # b.item
    <3>1. ~Repeated(a)
      BY <1>3, <2>1 DEF Eligible
    <3> QED BY <1>3, <3>1 DEF Repeated
  <2> HIDE DEF b
  <2>2. \A x, y \in attempts : x.eligible /\ y.eligible /\ x.item = y.item => x = y
    BY DEF StoreInd, EvidenceOnce
  <2> QED BY <1>2, <2>1, <2>2 DEF EvidenceOnce
<1> QED BY <1>1, <1>5, <1>6, <1>7, <1>8, <1>9, <1>10 DEF StoreTypeOK

\* record_attempt keeps every estimate a fold of its evidence.
LEMMA RecordFolds ==
  ASSUME StoreInd, NEW a \in Answers, RecordAttempt(a)
  PROVE  EstimateIsFold'
<1> DEFINE b == Recorded(a)
           key == Key(a.concept, a.snapshot)
<1>1. made \in Nat /\ made' = made + 1 /\ attempts' = attempts \cup {b}
  BY RecordEquations DEF StoreInd, StoreTypeOK
<1>2. /\ b.id = made + 1 /\ b.concept = a.concept /\ b.snapshot = a.snapshot
      /\ b.eligible = Eligible(a)
  BY RecordedFields
<1>3. ASSUME Eligible(a)
      PROVE  /\ key \in Keys /\ key.concept = a.concept
             /\ estimates' = [estimates EXCEPT ![key] = Append(@, made + 1)]
             /\ observations' = observations \cup
                  {[attempt |-> made + 1, key |-> key, count |-> Len(estimates[key]) + 1]}
  BY <1>3, RecordedFields, KeyIsKey, RecordEquations
<1>4. ASSUME ~Eligible(a) PROVE estimates' = estimates /\ observations' = observations
  BY <1>4, RecordEquations
<1>5. Eligible(a) \in BOOLEAN /\ estimates \in [Keys -> Seq(Nat)]
  BY RecordedFields DEF StoreInd, StoreTypeOK
<1> DEFINE el == Eligible(a)
<1> HIDE DEF b, el
<1>6. ASSUME NEW k \in Keys, el, k = key
      PROVE  /\ estimates'[k] = Append(estimates[k], made + 1)
             /\ DOMAIN estimates[k] = 1..Len(estimates[k]) /\ Len(estimates[k]) \in Nat
             /\ DOMAIN estimates'[k] = 1..(Len(estimates[k]) + 1)
             /\ estimates'[k][Len(estimates[k]) + 1] = made + 1
             /\ \A i \in DOMAIN estimates[k] : estimates'[k][i] = estimates[k][i]
  <2>1. estimates[k] \in Seq(Nat)
    BY <1>5
  <2>2. estimates'[k] = Append(estimates[k], made + 1)
    BY <1>3, <1>5, <1>6 DEF el
  <2> QED BY <2>1, <2>2
<1>7. ASSUME NEW k \in Keys, ~(el /\ k = key)
      PROVE  estimates'[k] = estimates[k]
  BY <1>3, <1>4, <1>5, <1>7 DEF el
<1>8. ASSUME NEW k \in Keys
      PROVE  LET ids == estimates'[k]
                 of == {x \in attempts' : x.eligible /\ x.concept = k.concept}
             IN  /\ \A i, j \in DOMAIN ids : i < j => ids[i] < ids[j]
                 /\ \A i \in DOMAIN ids : \E x \in of : x.id = ids[i]
                 /\ \A x \in of : Key(k.concept, x.snapshot) = k
                                    => \E i \in DOMAIN ids : ids[i] = x.id
  <2> DEFINE ids == estimates'[k]  old == estimates[k]  n == Len(old)
  <2>1. /\ \A i, j \in DOMAIN old : i < j => old[i] < old[j]
        /\ \A i \in DOMAIN old : \E x \in attempts :
             x.eligible /\ x.concept = k.concept /\ x.id = old[i]
        /\ \A x \in attempts :
             x.eligible /\ x.concept = k.concept /\ Key(k.concept, x.snapshot) = k =>
               \E i \in DOMAIN old : old[i] = x.id
    BY FoldOf
  <2>2. CASE el /\ k = key
    <3>1. /\ DOMAIN old = 1..n /\ n \in Nat /\ DOMAIN ids = 1..(n + 1)
          /\ ids[n + 1] = made + 1 /\ \A i \in DOMAIN old : ids[i] = old[i]
      BY <1>6, <2>2
    <3>2. old \in Seq(Nat)
      BY <1>5
    <3> HIDE DEF ids, old, n
    <3>3. ASSUME NEW i \in 1..n PROVE old[i] \in Nat /\ old[i] <= made
      <4>1. PICK x \in attempts : x.id = old[i]
        BY <2>1, <3>1
      <4> QED BY <4>1, AttemptFields
    <3>4. ASSUME NEW i \in DOMAIN ids, NEW j \in DOMAIN ids, i < j PROVE ids[i] < ids[j]
      <4>1. i \in 1..n
        BY <3>1, <3>4
      <4>2. CASE j = n + 1
        <5>1. ids[i] = old[i] /\ old[i] \in Nat /\ old[i] <= made
          BY <3>1, <3>3, <4>1
        <5> QED BY <1>1, <3>1, <4>2, <5>1
      <4>3. CASE j # n + 1
        <5>1. j \in 1..n
          BY <3>1, <3>4, <4>3
        <5> QED BY <2>1, <3>1, <3>4, <4>1, <5>1
      <4> QED BY <4>2, <4>3
    <3>5. ASSUME NEW i \in DOMAIN ids
          PROVE  \E x \in attempts' : x.eligible /\ x.concept = k.concept /\ x.id = ids[i]
      <4>1. CASE i = n + 1
        <5>1. b \in attempts' /\ b.eligible /\ b.concept = k.concept /\ b.id = ids[i]
          BY <1>1, <1>2, <1>3, <2>2, <3>1, <4>1 DEF el
        <5> QED BY <5>1
      <4>2. CASE i # n + 1
        <5>1. i \in DOMAIN old
          BY <3>1, <4>2
        <5> QED BY <1>1, <2>1, <3>1, <5>1
      <4> QED BY <4>1, <4>2
    <3>6. ASSUME NEW x \in attempts', x.eligible, x.concept = k.concept,
                 Key(k.concept, x.snapshot) = k
          PROVE  \E i \in DOMAIN ids : ids[i] = x.id
      <4>1. CASE x = b
        <5>1. n + 1 \in DOMAIN ids
          BY <3>1
        <5> QED BY <1>2, <3>1, <4>1, <5>1
      <4>2. CASE x \in attempts
        <5>1. PICK i \in DOMAIN old : old[i] = x.id
          BY <2>1, <3>6, <4>2
        <5>2. i \in DOMAIN ids /\ ids[i] = x.id
          BY <3>1, <5>1
        <5> QED BY <5>2
      <4> QED BY <1>1, <4>1, <4>2
    <3> QED BY <3>4, <3>5, <3>6, FoldIntro DEF ids
  <2>3. CASE ~(el /\ k = key)
    <3>1. ids = old
      BY <1>7, <2>3
    <3> HIDE DEF ids, old
    <3>2. \A i \in DOMAIN ids : \E x \in attempts' :
            x.eligible /\ x.concept = k.concept /\ x.id = ids[i]
      BY <1>1, <2>1, <3>1
    <3>3. ASSUME NEW x \in attempts', x.eligible, x.concept = k.concept,
                 Key(k.concept, x.snapshot) = k
          PROVE  \E i \in DOMAIN ids : ids[i] = x.id
      <4>1. x # b
        <5>1. ASSUME x = b PROVE el /\ k = key
          <6>1. el
            BY <1>2, <3>3, <5>1 DEF el
          <6>2. k = key
            BY <1>2, <3>3, <5>1
          <6> QED BY <6>1, <6>2
        <5> QED BY <2>3, <5>1
      <4> QED BY <1>1, <2>1, <3>1, <3>3, <4>1
    <3> QED BY <2>1, <3>1, <3>2, <3>3, FoldIntro DEF ids
  <2> QED BY <2>2, <2>3
<1>9. ASSUME NEW o \in observations'
      PROVE  o.count \in DOMAIN estimates'[o.key] /\ estimates'[o.key][o.count] = o.attempt
  <2>1. CASE o \in observations
    <3>1. o.key \in Keys /\ o.count \in DOMAIN estimates[o.key]
          /\ estimates[o.key][o.count] = o.attempt
      BY <2>1, ObservedAttempt
    <3>2. CASE el /\ o.key = key
      <4>1. DOMAIN estimates[o.key] = 1..Len(estimates[o.key]) /\ Len(estimates[o.key]) \in Nat
            /\ DOMAIN estimates'[o.key] = 1..(Len(estimates[o.key]) + 1)
            /\ estimates'[o.key][o.count] = estimates[o.key][o.count]
        BY <1>6, <3>1, <3>2
      <4> QED BY <3>1, <4>1
    <3>3. CASE ~(el /\ o.key = key)
      BY <1>7, <3>1, <3>3
    <3> QED BY <3>2, <3>3
  <2>2. CASE o \notin observations
    <3>1. el
      BY <1>4, <1>9, <2>2 DEF el
    <3>2. o = [attempt |-> made + 1, key |-> key, count |-> Len(estimates[key]) + 1]
      BY <1>3, <1>9, <2>2, <3>1 DEF el
    <3>3. o.attempt = made + 1 /\ o.key = key /\ o.count = Len(estimates[key]) + 1 /\ key \in Keys
      BY <1>3, <3>1, <3>2 DEF el
    <3>4. Len(estimates[key]) \in Nat /\ DOMAIN estimates'[key] = 1..(Len(estimates[key]) + 1)
          /\ estimates'[key][Len(estimates[key]) + 1] = made + 1
      BY <1>6, <3>1, <3>3
    <3> HIDE DEF key
    <3> QED BY <3>3, <3>4
  <2> QED BY <2>1, <2>2
<1>10. ASSUME NEW x \in attempts', x.eligible PROVE \E o \in observations' : o.attempt = x.id
  <2>1. CASE x \in attempts
    <3>1. PICK o \in observations : o.attempt = x.id
      BY <1>10, <2>1 DEF StoreInd, EstimateIsFold
    <3>2. o \in observations'
      BY <1>3, <1>4 DEF el
    <3> QED BY <3>1, <3>2
  <2>2. CASE x = b
    <3>1. el
      BY <1>2, <1>10, <2>2 DEF el
    <3> DEFINE o == [attempt |-> made + 1, key |-> key, count |-> Len(estimates[key]) + 1]
    <3>2. o \in observations' /\ o.attempt = x.id
      BY <1>2, <1>3, <2>2, <3>1 DEF el
    <3> QED BY <3>2
  <2> QED BY <1>1, <2>1, <2>2
<1> QED BY <1>8, <1>9, <1>10 DEF EstimateIsFold

LEMMA RecordKeeps ==
  ASSUME StoreInd, NEW a \in Answers, RecordAttempt(a)
  PROVE  StoreInd'
BY RecordTyped, RecordFolds DEF StoreInd

\* What a replay folds: the eligible attempts of the concept that are left,
\* each once and in order.
LEMMA EvidenceLists ==
  ASSUME StoreInd, NEW s, NEW c
  PROVE  LET ids == Evidence(s, c)
         IN  /\ ids \in Seq(Nat)
             /\ \A i, j \in DOMAIN ids : i < j => ids[i] < ids[j]
             /\ \A i \in DOMAIN ids : \E a \in Kept(s) :
                  a.eligible /\ a.concept = c /\ a.id = ids[i]
             /\ \A a \in Kept(s) : a.eligible /\ a.concept = c =>
                  \E i \in DOMAIN ids : ids[i] = a.id
<1> DEFINE left == {a \in Kept(s) : a.eligible /\ a.concept = c}
           S == {a.id : a \in left}
           ids == InOrder(S)
<1>1. made \in Nat
  BY DEF StoreInd, StoreTypeOK
<1>2. S \subseteq 1..made
  BY AttemptFields DEF Kept
<1>3. IsFiniteSet(1..made)
  BY <1>1, FS_Interval
<1>4. S \in SUBSET Nat /\ IsFiniteSet(S)
  <2> HIDE DEF S
  <2>1. IsFiniteSet(S)
    BY <1>2, <1>3, FS_Subset
  <2>2. S \in SUBSET Nat
    BY <1>2
  <2> QED BY <2>1, <2>2
<1>5. \A x \in S : \E a \in left : a.id = x
  OBVIOUS
<1>6. \A a \in left : a.id \in S
  OBVIOUS
<1> HIDE DEF S
<1>7. /\ Cardinality(S) \in Nat
      /\ ids \in [1..Cardinality(S) -> S]
      /\ Ascends(ids, Cardinality(S))
      /\ \A x \in S : \E i \in 1..Cardinality(S) : ids[i] = x
  BY <1>4, InOrderLists
<1>8. Evidence(s, c) = ids
  BY DEF Evidence, S
<1> HIDE DEF ids, left
<1>9. DOMAIN ids = 1..Cardinality(S)
  BY <1>7
<1>10. ids \in Seq(Nat)
  <2>1. ids \in [1..Cardinality(S) -> Nat]
    BY <1>4, <1>7
  <2> QED BY <1>7, <2>1, SeqDef
<1>11. \A i, j \in DOMAIN ids : i < j => ids[i] < ids[j]
  BY <1>7, <1>9 DEF Ascends
<1>12. \A i \in DOMAIN ids : \E a \in left : a.id = ids[i]
  BY <1>5, <1>7, <1>9
<1>13. \A a \in left : \E i \in DOMAIN ids : ids[i] = a.id
  BY <1>6, <1>7, <1>9
<1> QED BY <1>8, <1>10, <1>11, <1>12, <1>13 DEF left

LEMMA IndexFound ==
  ASSUME NEW q \in Seq(Nat), NEW i \in DOMAIN q
  PROVE  IndexOf(q[i], q) \in DOMAIN q /\ q[IndexOf(q[i], q)] = q[i] /\ IndexOf(q[i], q) \in Nat
<1>1. \E n \in DOMAIN q : q[n] = q[i]
  OBVIOUS
<1>2. IndexOf(q[i], q) \in DOMAIN q /\ q[IndexOf(q[i], q)] = q[i]
  BY <1>1 DEF IndexOf
<1>3. DOMAIN q \subseteq Nat
  OBVIOUS
<1> QED BY <1>2, <1>3

\* An estimate that is not replayed holds nothing of the session.
LEMMA Untouched ==
  ASSUME StoreInd, NEW s, NEW k \in Keys, ~Replayed(s, k), NEW a \in attempts,
         a.eligible, a.concept = k.concept, NEW i \in DOMAIN estimates[k],
         estimates[k][i] = a.id
  PROVE  a \in Kept(s)
<1>1. ASSUME a.session = s PROVE FALSE
  <2>1. k.concept \in Affected(s)
    BY <1>1 DEF Affected
  <2>2. estimates[k] # <<>>
    <3>1. estimates[k] \in Seq(Nat)
      BY DEF StoreInd, StoreTypeOK
    <3>2. DOMAIN estimates[k] # {}
      OBVIOUS
    <3> QED BY <3>1, <3>2
  <2> QED BY <2>1, <2>2 DEF Replayed
<1> QED BY <1>1 DEF Kept

\* delete_session_data leaves every estimate a fold of what is left.
LEMMA DeleteFolds ==
  ASSUME StoreInd, NEW s, DeleteSessionData(s), NEW k \in Keys
  PROVE  LET ids == estimates'[k]
         IN  /\ ids \in Seq(Nat)
             /\ \A i, j \in DOMAIN ids : i < j => ids[i] < ids[j]
             /\ \A i \in DOMAIN ids : \E a \in Kept(s) :
                  a.eligible /\ a.concept = k.concept /\ a.id = ids[i]
             /\ \A a \in Kept(s) :
                  a.eligible /\ a.concept = k.concept /\ Key(k.concept, a.snapshot) = k =>
                    \E i \in DOMAIN ids : ids[i] = a.id
<1>1. estimates'[k] = IF Replayed(s, k) THEN Evidence(s, k.concept) ELSE estimates[k]
  BY DEF DeleteSessionData
<1>2. CASE Replayed(s, k)
  <2>0. PICK c : c = k.concept
    OBVIOUS
  <2> DEFINE q == Evidence(s, c)
  <2>1. /\ q \in Seq(Nat)
        /\ \A i, j \in DOMAIN q : i < j => q[i] < q[j]
        /\ \A i \in DOMAIN q : \E a \in Kept(s) :
             a.eligible /\ a.concept = c /\ a.id = q[i]
        /\ \A a \in Kept(s) : a.eligible /\ a.concept = c =>
             \E i \in DOMAIN q : q[i] = a.id
    BY EvidenceLists
  <2>2. estimates'[k] = q
    BY <1>1, <1>2, <2>0
  <2> HIDE DEF q
  <2> QED BY <2>0, <2>1, <2>2
<1>3. CASE ~Replayed(s, k)
  <2>1. \A i \in DOMAIN estimates[k] : \E a \in Kept(s) :
          a.eligible /\ a.concept = k.concept /\ a.id = estimates[k][i]
    <3>1. SUFFICES ASSUME NEW i \in DOMAIN estimates[k]
                   PROVE  \E a \in Kept(s) :
                            a.eligible /\ a.concept = k.concept /\ a.id = estimates[k][i]
      OBVIOUS
    <3>2. PICK a \in attempts : a.eligible /\ a.concept = k.concept /\ a.id = estimates[k][i]
      BY FoldOf
    <3>3. a \in Kept(s)
      BY <1>3, <3>2, Untouched
    <3> QED BY <3>2, <3>3
  <2>2. \A a \in Kept(s) : a \in attempts
    BY DEF Kept
  <2>3. /\ estimates[k] \in Seq(Nat)
        /\ \A i, j \in DOMAIN estimates[k] : i < j => estimates[k][i] < estimates[k][j]
        /\ \A a \in attempts :
             a.eligible /\ a.concept = k.concept /\ Key(k.concept, a.snapshot) = k =>
               \E i \in DOMAIN estimates[k] : estimates[k][i] = a.id
    BY FoldOf
  <2>4. estimates'[k] = estimates[k]
    BY <1>1, <1>3
  <2> QED BY <2>1, <2>2, <2>3, <2>4
<1> QED BY <1>2, <1>3

\* An observation after the deletion, in terms of the one it was.
LEMMA DeleteObserved ==
  ASSUME StoreInd, NEW s, DeleteSessionData(s), NEW p \in observations'
  PROVE  /\ p \in [attempt : 1..made, key : Keys, count : Nat]
         /\ p.count \in DOMAIN estimates'[p.key]
         /\ estimates'[p.key][p.count] = p.attempt
<1>1. PICK o \in observations :
        /\ AttemptOf(o.attempt).session # s
        /\ p = IF Replayed(s, o.key)
                 THEN [o EXCEPT !.count = IndexOf(o.attempt, Evidence(s, o.key.concept))]
                 ELSE o
  BY DEF DeleteSessionData
<1>2. /\ o \in [attempt : 1..made, key : Keys, count : Nat]
      /\ o.count \in DOMAIN estimates[o.key] /\ estimates[o.key][o.count] = o.attempt
      /\ o.key \in Keys
  BY ObservedAttempt DEF StoreInd, StoreTypeOK
<1>3. estimates'[o.key] =
        IF Replayed(s, o.key) THEN Evidence(s, o.key.concept) ELSE estimates[o.key]
  BY <1>2 DEF DeleteSessionData
<1>4. CASE Replayed(s, o.key)
  <2> DEFINE a == AttemptOf(o.attempt)  q == Evidence(s, o.key.concept)
             n == IndexOf(o.attempt, q)
  <2>1. a \in Kept(s) /\ a.eligible /\ a.concept = o.key.concept /\ a.id = o.attempt
    BY <1>1, ObservedAttempt DEF Kept
  <2>2. q \in Seq(Nat) /\ \A x \in Kept(s) : x.eligible /\ x.concept = o.key.concept =>
          \E i \in DOMAIN q : q[i] = x.id
    BY EvidenceLists
  <2> HIDE DEF q
  <2>3. n \in DOMAIN q /\ q[n] = o.attempt /\ n \in Nat
    <3>1. PICK i \in DOMAIN q : q[i] = o.attempt
      BY <2>1, <2>2
    <3> QED BY <2>2, <3>1, IndexFound
  <2>4. p = [o EXCEPT !.count = n]
    BY <1>1, <1>4 DEF q
  <2> HIDE DEF n
  <2>5. p \in [attempt : 1..made, key : Keys, count : Nat]
        /\ p.count = n /\ p.key = o.key /\ p.attempt = o.attempt
    BY <1>2, <2>3, <2>4
  <2>6. estimates'[o.key] = q
    BY <1>3, <1>4 DEF q
  <2> QED BY <2>3, <2>5, <2>6
<1>5. CASE ~Replayed(s, o.key)
  BY <1>1, <1>2, <1>3, <1>5
<1> QED BY <1>4, <1>5

\* delete_session_data keeps the store's invariant.
LEMMA DeleteKeeps ==
  ASSUME StoreInd, NEW s \in Sessions, DeleteSessionData(s)
  PROVE  StoreInd' /\ made' = made /\ attempts' = Kept(s)
         /\ outbox' = {r \in outbox : r.session # s}
<1>1. /\ made' = made /\ attempts' = Kept(s)
      /\ outbox' = {r \in outbox : r.session # s} /\ DOMAIN estimates' = Keys
  BY DEF DeleteSessionData
<1>2. Kept(s) \subseteq attempts
  BY DEF Kept
<1>3. attempts' \subseteq Attempts'
  BY <1>1, <1>2 DEF StoreInd, StoreTypeOK, Attempts
<1>4. estimates' \in [Keys -> Seq(Nat)]
  <2>1. estimates' = [k \in Keys |->
          IF Replayed(s, k) THEN Evidence(s, k.concept) ELSE estimates[k]]
    BY DEF DeleteSessionData
  <2>2. \A k \in Keys : estimates'[k] \in Seq(Nat)
    BY DeleteFolds
  <2>3. estimates' = [k \in Keys |-> estimates'[k]]
    BY <2>1
  <2> QED BY <2>2, <2>3
<1>5. observations' \subseteq [attempt : 1..made', key : Keys, count : Nat]
  BY <1>1, DeleteObserved
<1>6. outbox' \subseteq [event : 1..made', session : Sessions, delivered : BOOLEAN]
  BY <1>1 DEF StoreInd, StoreTypeOK
<1>7. StoreTypeOK'
  BY <1>1, <1>3, <1>4, <1>5, <1>6 DEF StoreInd, StoreTypeOK
<1>8. Numbered' /\ EvidenceOnce'
  BY <1>1, <1>2 DEF StoreInd, Numbered, EvidenceOnce
<1>9. ASSUME NEW k \in Keys
      PROVE  LET ids == estimates'[k]
                 of == {x \in attempts' : x.eligible /\ x.concept = k.concept}
             IN  /\ \A i, j \in DOMAIN ids : i < j => ids[i] < ids[j]
                 /\ \A i \in DOMAIN ids : \E x \in of : x.id = ids[i]
                 /\ \A x \in of : Key(k.concept, x.snapshot) = k
                                    => \E i \in DOMAIN ids : ids[i] = x.id
  <2> DEFINE ids == estimates'[k]
  <2>1. /\ \A i, j \in DOMAIN ids : i < j => ids[i] < ids[j]
        /\ \A i \in DOMAIN ids : \E a \in Kept(s) :
             a.eligible /\ a.concept = k.concept /\ a.id = ids[i]
        /\ \A a \in Kept(s) :
             a.eligible /\ a.concept = k.concept /\ Key(k.concept, a.snapshot) = k =>
               \E i \in DOMAIN ids : ids[i] = a.id
    BY DeleteFolds
  <2> HIDE DEF ids
  <2> QED BY <1>1, <2>1, FoldIntro DEF ids
<1>10. ASSUME NEW a \in attempts', a.eligible PROVE \E o \in observations' : o.attempt = a.id
  <2>1. a \in attempts /\ a.session # s
    BY <1>1, <1>10 DEF Kept
  <2>2. PICK o \in observations : o.attempt = a.id
    BY <1>10, <2>1 DEF StoreInd, EstimateIsFold
  <2>3. AttemptOf(o.attempt) = a
    BY <2>1, <2>2, ObservedAttempt DEF StoreInd, Numbered
  <2> DEFINE p == IF Replayed(s, o.key)
                    THEN [o EXCEPT !.count = IndexOf(o.attempt, Evidence(s, o.key.concept))]
                    ELSE o
  <2>4. p \in observations'
    BY <2>1, <2>3 DEF DeleteSessionData
  <2>5. p.attempt = a.id
    <3>1. o \in [attempt : 1..made, key : Keys, count : Nat]
      BY DEF StoreInd, StoreTypeOK
    <3> QED BY <2>2, <3>1
  <2> QED BY <2>4, <2>5
<1>11. EstimateIsFold'
  <2>1. \A o \in observations' :
          o.count \in DOMAIN estimates'[o.key] /\ estimates'[o.key][o.count] = o.attempt
    BY DeleteObserved
  <2> QED BY <1>9, <1>10, <2>1 DEF EstimateIsFold
<1> QED BY <1>1, <1>7, <1>8, <1>11 DEF StoreInd

LEMMA MarkKeeps ==
  ASSUME StoreInd, NEW e, MarkEventDelivered(e)
  PROVE  StoreInd'
<1>1. UNCHANGED <<made, attempts, estimates, observations>>
  BY DEF MarkEventDelivered
<1>2. ASSUME NEW r \in outbox
      PROVE  (IF r.event = e THEN [r EXCEPT !.delivered = TRUE] ELSE r)
               \in [event : 1..made, session : Sessions, delivered : BOOLEAN]
  <2>1. r \in [event : 1..made, session : Sessions, delivered : BOOLEAN]
    BY DEF StoreInd, StoreTypeOK
  <2> QED BY <2>1
<1>3. outbox' \subseteq [event : 1..made, session : Sessions, delivered : BOOLEAN]
  <2>1. outbox' = {IF r.event = e THEN [r EXCEPT !.delivered = TRUE] ELSE r : r \in outbox}
    BY DEF MarkEventDelivered
  <2> DEFINE T == [event : 1..made, session : Sessions, delivered : BOOLEAN]
  <2>2. \A r \in outbox : (IF r.event = e THEN [r EXCEPT !.delivered = TRUE] ELSE r) \in T
    BY <1>2
  <2> HIDE DEF T
  <2>3. outbox' \subseteq T
    BY <2>1, <2>2
  <2> QED BY <2>3 DEF T
<1> QED BY <1>1, <1>3 DEF StoreInd, StoreTypeOK, Attempts, Numbered, EvidenceOnce, EstimateIsFold

LEMMA StoreRests ==
  ASSUME StoreInd, UNCHANGED storeVars
  PROVE  StoreInd'
BY DEF storeVars, StoreInd, StoreTypeOK, Attempts, Numbered, EvidenceOnce, EstimateIsFold

LEMMA StoreStarts ==
  ASSUME StoreInit
  PROVE  StoreInd
<1>1. \A k \in Keys : estimates[k] = <<>> /\ <<>> \in Seq(Nat) /\ DOMAIN <<>> = {}
  BY DEF StoreInit
<1>2. StoreTypeOK
  BY <1>1 DEF StoreInit, StoreTypeOK
<1>3. EstimateIsFold
  BY <1>1 DEF StoreInit, EstimateIsFold
<1> QED BY <1>2, <1>3 DEF StoreInit, StoreInd, Numbered, EvidenceOnce

(* The audit of the attempts.                                                *)

Flushes == [on : BOOLEAN, todo : Seq(Nat \X Sessions), emitted : BOOLEAN]

\* What a flush still has to send names a session that an attempt of that
\* number is of.
Sent(e) == e[1] <= made /\ \A a \in attempts : a.id = e[1] => a.session = e[2]

\* An attempt of this number is in the log.
Logged(id) == \A a \in attempts : a.id = id => Contains(log[a.session], a.id)

FlushSound(f) ==
  /\ \A i \in DOMAIN f.todo : Sent(f.todo[i])
  /\ f.emitted => f.todo # <<>> /\ Logged(Head(f.todo)[1])

RowsNamed == \A a \in attempts, r \in outbox : r.event = a.id => r.session = a.session

\* AuditInd, one flush at a time.
LEMMA AuditParts ==
  ASSUME AuditInd
  PROVE  /\ open \subseteq Sessions /\ log \in [Sessions -> Seq(Nat)]
         /\ flush \in [Readers -> Flushes]
         /\ AuditNotLost /\ RowsNamed
         /\ \A r \in Readers : FlushSound(flush[r])
BY DEF AuditInd, AuditTypeOK, Addressed, EmittedFirst, Flushes, RowsNamed, FlushSound, Sent, Logged

LEMMA AuditWhole ==
  ASSUME open' \subseteq Sessions, log' \in [Sessions -> Seq(Nat)],
         flush' \in [Readers -> Flushes],
         AuditNotLost', RowsNamed', NEW F, F = flush',
         \A r \in Readers : FlushSound(F[r])'
  PROVE  AuditInd'
<1>1. \A r \in Readers : FlushSound(flush[r])'
  BY DEF FlushSound, Sent, Logged
<1>2. AuditTypeOK'
  BY DEF AuditTypeOK, Flushes
<1>3. Addressed' /\ EmittedFirst'
  BY <1>1 DEF Addressed, EmittedFirst, RowsNamed, FlushSound, Sent, Logged
<1> QED BY <1>2, <1>3 DEF AuditInd

LEMMA RestSound ==
  /\ NotFlushing \in Flushes
  /\ FlushSound(NotFlushing) /\ FlushSound(NotFlushing)'
<1>1. NotFlushing.todo = <<>> /\ NotFlushing.emitted = FALSE /\ <<>> \in Seq(Nat \X Sessions)
  BY DEF NotFlushing
<1>2. DOMAIN <<>> = {}
  OBVIOUS
<1> QED BY <1>1, <1>2 DEF NotFlushing, Flushes, FlushSound

\* The rows a flush reads, as pairs of an event and its session.
LEMMA ListedRows ==
  ASSUME NEW m \in Nat, NEW rows \in SUBSET [event : 1..m, session : Sessions, delivered : BOOLEAN]
  PROVE  /\ Listed(rows) \in Seq(Nat \X Sessions)
         /\ \A i \in DOMAIN Listed(rows) : \E r \in rows : Listed(rows)[i] = <<r.event, r.session>>
<1> DEFINE S == {r.event : r \in rows}
           ids == InOrder(S)
           Of(n) == CHOOSE r \in rows : r.event = n
<1>1. S \subseteq 1..m
  OBVIOUS
<1>2. \A n \in S : \E r \in rows : r.event = n
  OBVIOUS
<1>3. \A n \in S : Of(n) \in rows /\ Of(n).event = n
  BY <1>2
<1>4. Listed(rows) = [i \in DOMAIN ids |-> <<ids[i], Of(ids[i]).session>>]
  BY DEF Listed
<1> HIDE DEF S, Of
<1>5. IsFiniteSet(1..m)
  BY FS_Interval
<1>6. IsFiniteSet(S)
  BY <1>1, <1>5, FS_Subset
<1>7. S \in SUBSET Nat
  BY <1>1
<1>8. Cardinality(S) \in Nat /\ ids \in [1..Cardinality(S) -> S]
  BY <1>6, <1>7, InOrderLists
<1> HIDE DEF ids
<1> DEFINE q == Listed(rows)
<1>9. ASSUME NEW i \in DOMAIN q
      PROVE  \E r \in rows : q[i] = <<r.event, r.session>>
  <2>1. i \in DOMAIN ids /\ q[i] = <<ids[i], Of(ids[i]).session>>
    BY <1>4, <1>9
  <2>2. ids[i] \in S
    BY <1>8, <2>1
  <2>3. Of(ids[i]) \in rows /\ Of(ids[i]).event = ids[i]
    BY <1>3, <2>2
  <2> QED BY <2>1, <2>3
<1>10. DOMAIN q = 1..Cardinality(S)
  BY <1>4, <1>8
<1> HIDE DEF q
<1>11. \A i \in DOMAIN q : q[i] \in Nat \X Sessions
  <2>1. SUFFICES ASSUME NEW i \in DOMAIN q PROVE q[i] \in Nat \X Sessions
    OBVIOUS
  <2>2. PICK r \in rows : q[i] = <<r.event, r.session>>
    BY <1>9
  <2>3. r.event \in Nat /\ r.session \in Sessions
    OBVIOUS
  <2> QED BY <2>2, <2>3
<1>12. q = [i \in DOMAIN q |-> q[i]]
  BY <1>4 DEF q
<1>13. q \in [1..Cardinality(S) -> Nat \X Sessions]
  BY <1>10, <1>11, <1>12
<1>14. q \in Seq(Nat \X Sessions)
  BY <1>8, <1>13, SeqDef
<1> QED BY <1>9, <1>14 DEF q

LEMMA PendingSound ==
  ASSUME StoreInd, RowsNamed
  PROVE  Flushing(PendingEvents) \in Flushes /\ FlushSound(Flushing(PendingEvents))
<1> DEFINE rows == {r \in outbox : ~r.delivered}
           q == Listed(rows)
<1>1. made \in Nat /\ rows \in SUBSET [event : 1..made, session : Sessions, delivered : BOOLEAN]
      /\ rows \subseteq outbox
  BY DEF StoreInd, StoreTypeOK
<1>2. q = PendingEvents
  BY DEF PendingEvents
<1> HIDE DEF rows
<1>3. /\ q \in Seq(Nat \X Sessions)
      /\ \A i \in DOMAIN q : \E r \in rows : q[i] = <<r.event, r.session>>
  BY <1>1, ListedRows
<1> HIDE DEF q
<1>4. ASSUME NEW i \in DOMAIN q PROVE Sent(q[i])
  <2>1. PICK r \in rows : q[i] = <<r.event, r.session>>
    BY <1>3
  <2>2. r.event \in 1..made /\ r \in outbox
    BY <1>1
  <2>3. \A a \in attempts : a.id = q[i][1] => a.session = q[i][2]
    BY <2>1, <2>2 DEF RowsNamed
  <2>4. q[i][1] <= made
    BY <1>1, <2>1, <2>2
  <2> QED BY <2>3, <2>4 DEF Sent
<1>5. Flushing(q) \in Flushes /\ Flushing(q).todo = q /\ Flushing(q).emitted = FALSE
  BY <1>3 DEF Flushing, Flushes
<1> QED BY <1>2, <1>4, <1>5 DEF FlushSound

\* The same in the state after a step.
LEMMA PendingSoundNext ==
  ASSUME StoreInd', RowsNamed'
  PROVE  \E f \in Flushes : f = Flushing(PendingEvents') /\ FlushSound(f)'
<1> DEFINE rows == {r \in outbox' : ~r.delivered}
<1>1. made' \in Nat /\ rows \in SUBSET [event : 1..made', session : Sessions, delivered : BOOLEAN]
      /\ rows \subseteq outbox'
  BY DEF StoreInd, StoreTypeOK
<1>2. Listed(rows) = PendingEvents'
  BY DEF PendingEvents, Listed
<1> HIDE DEF rows
<1>0. PICK m \in Nat : m = made'
  BY <1>1
<1>3. PICK q : q = Listed(rows)
  OBVIOUS
<1>8. /\ q \in Seq(Nat \X Sessions)
      /\ \A i \in DOMAIN q : \E r \in rows : q[i] = <<r.event, r.session>>
  BY <1>0, <1>1, <1>3, ListedRows
<1>4. ASSUME NEW i \in DOMAIN q PROVE Sent(q[i])'
  <2>1. PICK r \in rows : q[i] = <<r.event, r.session>>
    BY <1>8
  <2>2. r.event \in 1..made' /\ r \in outbox'
    BY <1>1
  <2>3. \A a \in attempts' : a.id = q[i][1] => a.session = q[i][2]
    BY <2>1, <2>2 DEF RowsNamed
  <2>4. q[i][1] <= made'
    BY <1>1, <2>1, <2>2
  <2> QED BY <2>3, <2>4 DEF Sent
<1>5. PICK f : f = Flushing(q)
  OBVIOUS
<1>6. f \in Flushes /\ f.todo = q /\ f.emitted = FALSE
  BY <1>5, <1>8 DEF Flushing, Flushes
<1>7. FlushSound(f)'
  BY <1>4, <1>6 DEF FlushSound
<1> QED BY <1>2, <1>3, <1>5, <1>6, <1>7

\* An attempt that is recorded: its row names it, and the others' audits stay.
LEMMA RecordAudited ==
  ASSUME StoreInd, AuditInd, NEW a \in Answers, RecordAttempt(a), UNCHANGED log
  PROVE  /\ AuditNotLost' /\ RowsNamed'
         /\ \A r \in Readers : \A f \in Flushes : f = flush[r] => FlushSound(f)'
<1> DEFINE b == Recorded(a)
           row1 == [event |-> made + 1, session |-> a.session, delivered |-> FALSE]
<1>1. /\ made \in Nat /\ made' = made + 1 /\ attempts' = attempts \cup {b}
      /\ outbox' = outbox \cup {row1}
  BY RecordEquations DEF StoreInd, StoreTypeOK
<1>2. b.id = made + 1 /\ b.session = a.session
  BY RecordedFields
<1>3. row1.event = made + 1 /\ row1.session = a.session /\ ~row1.delivered
  OBVIOUS
<1>4. ASSUME NEW x \in attempts PROVE x.id \in Nat /\ x.id <= made
  BY AttemptFields
<1>5. ASSUME NEW r \in outbox PROVE r.event \in Nat /\ r.event <= made
  BY <1>1 DEF StoreInd, StoreTypeOK
<1> HIDE DEF b, row1
<1>6. AuditNotLost'
  <2>1. \A x \in attempts' : Contains(log'[x.session], x.id)
          \/ \E r \in outbox' : r.event = x.id /\ ~r.delivered
    BY <1>1, <1>2, <1>3, AuditParts DEF AuditNotLost
  <2> QED BY <2>1, AuditParts DEF AuditNotLost
<1>7. RowsNamed'
  <2>1. SUFFICES ASSUME NEW x \in attempts', NEW r \in outbox', r.event = x.id
                 PROVE  r.session = x.session
    BY DEF RowsNamed
  <2>2. CASE x \in attempts
    <3>1. r # row1
      BY <1>1, <1>3, <1>4, <2>1, <2>2
    <3> QED BY <1>1, <2>1, <2>2, <3>1, AuditParts DEF RowsNamed
  <2>3. CASE x = b
    <3>1. r \notin outbox
      BY <1>1, <1>2, <1>5, <2>1, <2>3
    <3> QED BY <1>1, <1>2, <1>3, <2>1, <2>3, <3>1
  <2> QED BY <1>1, <2>2, <2>3
<1>8. ASSUME NEW e \in Nat \X Sessions, Sent(e) PROVE Sent(e)' /\ e[1] # b.id
  <2>1. e[1] \in Nat /\ e[1] <= made
    BY <1>8 DEF Sent
  <2>2. e[1] # b.id /\ e[1] <= made'
    BY <1>1, <1>2, <2>1
  <2>3. \A x \in attempts' : x.id = e[1] => x.session = e[2]
    BY <1>1, <1>8, <2>2 DEF Sent
  <2> QED BY <2>2, <2>3 DEF Sent
<1>9. ASSUME NEW r \in Readers, NEW f \in Flushes, f = flush[r] PROVE FlushSound(f)'
  <2>1. FlushSound(f)
    BY <1>9, AuditParts
  <2>2. f.todo \in Seq(Nat \X Sessions)
    BY DEF Flushes
  <2>3. \A i \in DOMAIN f.todo : f.todo[i] \in Nat \X Sessions
    BY <2>2
  <2>4. \A i \in DOMAIN f.todo : Sent(f.todo[i])'
    BY <1>8, <2>1, <2>3 DEF FlushSound
  <2>5. ASSUME f.emitted PROVE f.todo # <<>> /\ Logged(Head(f.todo)[1])'
    <3>1. f.todo # <<>> /\ Logged(Head(f.todo)[1])
      BY <2>1, <2>5 DEF FlushSound
    <3>2. Head(f.todo) = f.todo[1] /\ 1 \in DOMAIN f.todo
      BY <2>2, <3>1
    <3>3. Sent(f.todo[1]) /\ f.todo[1] \in Nat \X Sessions
      BY <2>1, <2>3, <3>2 DEF FlushSound
    <3>4. f.todo[1][1] # b.id
      BY <1>8, <3>3
    <3> QED BY <1>1, <3>1, <3>2, <3>4 DEF Logged
  <2> QED BY <2>4, <2>5 DEF FlushSound
<1> QED BY <1>6, <1>7, <1>9

\* A session's records are deleted: the others keep their rows and their log.
LEMMA DeleteAudited ==
  ASSUME StoreInd, AuditInd, NEW s \in Sessions, DeleteSessionData(s),
         \A t \in Sessions \ {s} : log'[t] = log[t],
         log' \in [Sessions -> Seq(Nat)], log'[s] = log[s] \/ log'[s] = <<>>
  PROVE  /\ AuditNotLost' /\ RowsNamed'
         /\ \A r \in Readers : \A f \in Flushes : f = flush[r] => FlushSound(f)'
<1>1. /\ made' = made /\ attempts' = Kept(s) /\ outbox' = {r \in outbox : r.session # s}
  BY DeleteKeeps
<1>2. ASSUME NEW x \in attempts'
      PROVE  x \in attempts /\ x.session \in Sessions \ {s}
  BY <1>1, AttemptFields DEF Kept
<1>3. AuditNotLost'
  <2>1. ASSUME NEW x \in attempts'
        PROVE  Contains(log'[x.session], x.id) \/ \E r \in outbox' : r.event = x.id /\ ~r.delivered
    <3>1. Contains(log[x.session], x.id) \/ \E r \in outbox : r.event = x.id /\ ~r.delivered
      BY <1>2, AuditParts DEF AuditNotLost
    <3>2. ASSUME NEW r \in outbox, r.event = x.id PROVE r \in outbox'
      BY <1>1, <1>2, <3>2, AuditParts DEF RowsNamed
    <3>3. log'[x.session] = log[x.session]
      BY <1>2
    <3> QED BY <3>1, <3>2, <3>3
  <2>2. ASSUME NEW t \in Sessions, NEW i \in DOMAIN log'[t], NEW j \in DOMAIN log'[t],
               log'[t][i] = log'[t][j]
        PROVE  i = j
    <3>1. CASE log'[t] = log[t]
      BY <2>2, <3>1, AuditParts DEF AuditNotLost
    <3>2. CASE log'[t] = <<>>
      BY <2>2, <3>2
    <3> QED BY <3>1, <3>2
  <2> QED BY <2>1, <2>2 DEF AuditNotLost
<1>4. RowsNamed'
  BY <1>1, <1>2, AuditParts DEF RowsNamed
<1>5. ASSUME NEW r \in Readers, NEW f \in Flushes, f = flush[r] PROVE FlushSound(f)'
  <2>1. FlushSound(f)
    BY <1>5, AuditParts
  <2>2. \A e : Sent(e) => Sent(e)'
    BY <1>1, <1>2 DEF Sent
  <2>3. \A id : Logged(id) => Logged(id)'
    BY <1>2 DEF Logged
  <2> QED BY <2>1, <2>2, <2>3 DEF FlushSound
<1> QED BY <1>3, <1>4, <1>5

\* What the quiz's steps do to the store keeps the audits, as nobody flushes.
LEMMA AuditApart ==
  ASSUME StoreInd, AuditInd, UNCHANGED auditVars,
         \/ \E a \in Answers : RecordAttempt(a)
         \/ \E s \in Sessions : DeleteSessionData(s)
         \/ UNCHANGED storeVars
  PROVE  AuditInd'
<1>1. open' = open /\ log' = log /\ flush' = flush
  BY DEF auditVars
<1>2. CASE \E a \in Answers : RecordAttempt(a)
  <2>1. /\ AuditNotLost' /\ RowsNamed'
        /\ \A r \in Readers : \A f \in Flushes : f = flush[r] => FlushSound(f)'
    BY <1>1, <1>2, RecordAudited
  <2>2. PICK F : F = flush'
    OBVIOUS
  <2>3. \A r \in Readers : FlushSound(F[r])'
    BY <1>1, <2>1, <2>2, AuditParts
  <2> QED BY <1>1, <2>1, <2>2, <2>3, AuditParts, AuditWhole
<1>3. CASE \E s \in Sessions : DeleteSessionData(s)
  <2>1. /\ AuditNotLost' /\ RowsNamed'
        /\ \A r \in Readers : \A f \in Flushes : f = flush[r] => FlushSound(f)'
    BY <1>1, <1>3, AuditParts, DeleteAudited
  <2>2. PICK F : F = flush'
    OBVIOUS
  <2>3. \A r \in Readers : FlushSound(F[r])'
    BY <1>1, <2>1, <2>2, AuditParts
  <2> QED BY <1>1, <2>1, <2>2, <2>3, AuditParts, AuditWhole
<1>4. CASE UNCHANGED storeVars
  BY <1>1, <1>4 DEF storeVars, AuditInd, AuditTypeOK, AuditNotLost, Addressed, EmittedFirst
<1> QED BY <1>2, <1>3, <1>4

LEMMA SubmissionIsAnswer ==
  ASSUME NEW s \in Sessions, NEW i \in Items, NEW hints \in HintCounts, NEW grade \in GradesOf(i)
  PROVE  Submission(s, i, grade, hints) \in Answers
<1>1. Questions[i] \in [concept : Concepts \cup {NoConcept}, single : BOOLEAN, exact : BOOLEAN]
  BY QuestionsAssumption
<1>2. grade \in {"right", "wrong", "none"}
  BY DEF GradesOf
<1>3. hints \in Nat /\ SnapshotOf[s] \in Snapshots
  BY HintCountsAssumption, SessionAssumption
<1> DEFINE e == s \in GroupC
<1>4. e \in BOOLEAN
  OBVIOUS
<1>5. Submission(s, i, grade, hints) =
        [session |-> s, item |-> i, concept |-> Questions[i].concept,
         single |-> Questions[i].single, grade |-> grade, hints |-> hints, enabled |-> e,
         snapshot |-> SnapshotOf[s]]
  BY DEF Submission
<1> HIDE DEF e
<1>6. Questions[i].concept \in Concepts \cup {NoConcept} /\ Questions[i].single \in BOOLEAN
  BY <1>1
<1> DEFINE c == Questions[i].concept  one == Questions[i].single  p == SnapshotOf[s]
<1> HIDE DEF c, one, p
<1>7. Submission(s, i, grade, hints) =
        [session |-> s, item |-> i, concept |-> c, single |-> one, grade |-> grade,
         hints |-> hints, enabled |-> e, snapshot |-> p]
  BY <1>5 DEF c, one, p
<1>8. c \in Concepts \cup {NoConcept} /\ one \in BOOLEAN /\ p \in Snapshots
  BY <1>3, <1>6 DEF c, one, p
<1> QED BY <1>2, <1>3, <1>4, <1>7, <1>8 DEF Answers

\* An answer, and an answer the process dies after.
LEMMA AnswerKept ==
  ASSUME StoreInd, AuditInd, NEW a \in Answers, NEW r \in Readers, NEW s, Answer(r, s, a)
  PROVE  StoreInd' /\ AuditInd'
<1>1. RecordAttempt(a) /\ open' = open /\ log' = log
      /\ flush' = [flush EXCEPT ![r] = Flushing(PendingEvents')]
  BY DEF Answer
<1>2. StoreInd'
  BY <1>1, RecordKeeps
<1>3. /\ AuditNotLost' /\ RowsNamed'
      /\ \A x \in Readers : \A f \in Flushes : f = flush[x] => FlushSound(f)'
  BY <1>1, RecordAudited
<1>4. PICK g \in Flushes : g = Flushing(PendingEvents') /\ FlushSound(g)'
  BY <1>2, <1>3, PendingSoundNext
<1>5. flush \in [Readers -> Flushes] /\ flush' = [flush EXCEPT ![r] = g]
  BY <1>1, <1>4, AuditParts
<1>6. PICK F : F = flush'
  OBVIOUS
<1>7. \A x \in Readers : (x = r => F[x] = g) /\ (x # r => F[x] = flush[x] /\ F[x] \in Flushes)
  BY <1>5, <1>6
<1>8. \A x \in Readers : FlushSound(F[x])'
  BY <1>3, <1>4, <1>7
<1>9. flush' \in [Readers -> Flushes]
  BY <1>4, <1>5
<1> QED BY <1>1, <1>2, <1>3, <1>6, <1>8, <1>9, AuditParts, AuditWhole

\* Nothing is left of a flush after the process died.
LEMMA RestKept ==
  ASSUME AuditInd, AuditNotLost', RowsNamed', UNCHANGED <<open, log>>,
         flush' = [r \in Readers |-> NotFlushing]
  PROVE  AuditInd'
<1>1. PICK n : n = NotFlushing
  OBVIOUS
<1>2. n \in Flushes /\ FlushSound(n)'
  BY <1>1, RestSound DEF NotFlushing
<1>3. PICK F : F = flush'
  OBVIOUS
<1>4. \A r \in Readers : FlushSound(F[r])'
  BY <1>1, <1>2, <1>3
<1>5. flush' \in [Readers -> Flushes]
  BY <1>1, <1>2
<1> QED BY <1>3, <1>4, <1>5, AuditParts, AuditWhole

LEMMA AnswerAndDieKept ==
  ASSUME StoreInd, AuditInd, NEW a \in Answers, NEW s, AnswerAndDie(s, a)
  PROVE  StoreInd' /\ AuditInd'
<1>1. RecordAttempt(a) /\ UNCHANGED <<open, log>> /\ flush' = [r \in Readers |-> NotFlushing]
  BY DEF AnswerAndDie
<1>2. StoreInd' /\ AuditNotLost' /\ RowsNamed'
  BY <1>1, RecordKeeps, RecordAudited
<1> QED BY <1>1, <1>2, RestKept

LEMMA DeleteAndDieKept ==
  ASSUME StoreInd, AuditInd, NEW s \in Sessions, DeleteAndDie(s)
  PROVE  StoreInd' /\ AuditInd'
<1>1. DeleteSessionData(s) /\ UNCHANGED <<open, log>> /\ flush' = [r \in Readers |-> NotFlushing]
  BY DEF DeleteAndDie
<1>2. StoreInd'
  BY <1>1, DeleteKeeps
<1>3. AuditNotLost' /\ RowsNamed'
  BY <1>1, AuditParts, DeleteAudited
<1> QED BY <1>1, <1>2, <1>3, RestKept

LEMMA DeleteWithEventsKept ==
  ASSUME StoreInd, AuditInd, NEW s \in Sessions, DeleteWithEvents(s)
  PROVE  StoreInd' /\ AuditInd'
<1>1. DeleteSessionData(s) /\ open' = open \ {s} /\ log' = [log EXCEPT ![s] = <<>>]
      /\ flush' = flush
  BY DEF DeleteWithEvents
<1>2. StoreInd'
  BY <1>1, DeleteKeeps
<1>3. log' \in [Sessions -> Seq(Nat)] /\ log'[s] = <<>> /\ \A t \in Sessions \ {s} : log'[t] = log[t]
  BY <1>1, AuditParts
<1>4. /\ AuditNotLost' /\ RowsNamed'
      /\ \A r \in Readers : \A f \in Flushes : f = flush[r] => FlushSound(f)'
  BY <1>1, <1>3, DeleteAudited
<1>5. PICK F : F = flush'
  OBVIOUS
<1>6. \A r \in Readers : FlushSound(F[r])'
  BY <1>1, <1>4, <1>5, AuditParts
<1> QED BY <1>1, <1>2, <1>3, <1>4, <1>5, <1>6, AuditParts, AuditWhole

\* A step that leaves the tables and the log alone.
LEMMA FlushKept ==
  ASSUME StoreInd, AuditInd, UNCHANGED <<open, log, storeVars>>,
         NEW r \in Readers, NEW g \in Flushes, FlushSound(g), flush' = [flush EXCEPT ![r] = g]
  PROVE  StoreInd' /\ AuditInd'
<1>1. StoreInd'
  BY StoreRests
<1>2. made' = made /\ attempts' = attempts /\ outbox' = outbox
  BY DEF storeVars
<1>3. AuditNotLost' /\ RowsNamed'
  BY <1>2, AuditParts DEF AuditNotLost, RowsNamed
<1>4. \A f : FlushSound(f) => FlushSound(f)'
  BY <1>2 DEF FlushSound, Sent, Logged
<1>5. PICK F : F = flush'
  OBVIOUS
<1>6. flush \in [Readers -> Flushes] /\ \A x \in Readers : FlushSound(flush[x])
  BY AuditParts
<1>7. \A x \in Readers : F[x] = g \/ F[x] = flush[x]
  BY <1>5, <1>6
<1>8. \A x \in Readers : FlushSound(F[x])'
  BY <1>4, <1>6, <1>7
<1>9. flush' \in [Readers -> Flushes]
  BY <1>6
<1> QED BY <1>1, <1>3, <1>5, <1>8, <1>9, AuditParts, AuditWhole

LEMMA ReadLearnerKept ==
  ASSUME StoreInd, AuditInd, NEW r \in Readers, NEW s, ReadLearner(r, s)
  PROVE  StoreInd' /\ AuditInd'
<1>1. flush' = [flush EXCEPT ![r] = Flushing(PendingEvents)] /\ UNCHANGED <<open, log, storeVars>>
  BY DEF ReadLearner
<1>2. PICK g : g = Flushing(PendingEvents)
  OBVIOUS
<1>3. g \in Flushes /\ FlushSound(g)
  BY <1>2, AuditParts, PendingSound
<1> QED BY <1>1, <1>2, <1>3, FlushKept

LEMMA EndFlushKept ==
  ASSUME StoreInd, AuditInd, NEW r \in Readers, EndFlush(r)
  PROVE  StoreInd' /\ AuditInd'
<1>1. flush' = [flush EXCEPT ![r] = NotFlushing] /\ UNCHANGED <<open, log, storeVars>>
  BY DEF EndFlush
<1>2. PICK g : g = NotFlushing
  OBVIOUS
<1>3. g \in Flushes /\ FlushSound(g)
  BY <1>2, RestSound
<1> QED BY <1>1, <1>2, <1>3, FlushKept

LEMMA DieFlushingKept ==
  ASSUME StoreInd, AuditInd, DieFlushing
  PROVE  StoreInd' /\ AuditInd'
<1>1. flush' = [r \in Readers |-> NotFlushing] /\ UNCHANGED <<open, log, storeVars>>
  BY DEF DieFlushing
<1>2. StoreInd'
  BY <1>1, StoreRests
<1>3. AuditNotLost' /\ RowsNamed'
  BY <1>1, AuditParts DEF storeVars, AuditNotLost, RowsNamed
<1> QED BY <1>1, <1>2, <1>3, RestKept

LEMMA ContainsAppended ==
  ASSUME NEW q \in Seq(Nat), NEW n \in Nat
  PROVE  LET p == IF Contains(q, n) THEN q ELSE Append(q, n)
         IN  /\ p \in Seq(Nat) /\ Contains(p, n)
             /\ \A m : Contains(q, m) => Contains(p, m)
             /\ (\A i, j \in DOMAIN q : q[i] = q[j] => i = j)
                  => \A i, j \in DOMAIN p : p[i] = p[j] => i = j
<1>1. CASE Contains(q, n)
  BY <1>1
<1>2. CASE ~Contains(q, n)
  <2> DEFINE p == Append(q, n)
  <2>1. /\ p \in Seq(Nat) /\ Len(q) \in Nat /\ Len(p) = Len(q) + 1
        /\ DOMAIN q = 1..Len(q) /\ DOMAIN p = 1..Len(p)
        /\ \A i \in 1..Len(q) : p[i] = q[i] /\ i \in 1..Len(p)
        /\ p[Len(q) + 1] = n
    OBVIOUS
  <2> HIDE DEF p
  <2>2. Contains(p, n)
    <3>1. Len(q) + 1 \in 1..Len(p)
      BY <2>1
    <3> QED BY <2>1, <3>1 DEF Contains
  <2>3. \A m : Contains(q, m) => Contains(p, m)
    BY <2>1 DEF Contains
  <2>4. \A i \in 1..Len(q) : q[i] # n
    BY <1>2 DEF Contains
  <2>5. ASSUME \A i, j \in DOMAIN q : q[i] = q[j] => i = j,
               NEW i \in DOMAIN p, NEW j \in DOMAIN p, p[i] = p[j]
        PROVE  i = j
    <3>1. CASE i \in 1..Len(q) /\ j \in 1..Len(q)
      BY <2>1, <2>5, <3>1
    <3>2. CASE i = Len(q) + 1 /\ j = Len(q) + 1
      BY <3>2
    <3>3. CASE i = Len(q) + 1 /\ j \in 1..Len(q)
      BY <2>1, <2>4, <2>5, <3>3
    <3>4. CASE i \in 1..Len(q) /\ j = Len(q) + 1
      BY <2>1, <2>4, <2>5, <3>4
    <3>5. (i \in 1..Len(q) \/ i = Len(q) + 1) /\ (j \in 1..Len(q) \/ j = Len(q) + 1)
      BY <2>1, <2>5
    <3> QED BY <3>1, <3>2, <3>3, <3>4, <3>5
  <2>6. Append(q, n) = p
    BY DEF p
  <2> QED BY <1>2, <2>1, <2>2, <2>3, <2>5, <2>6
<1> QED BY <1>1, <1>2

\* An event that is emitted is in the log, once.
LEMMA EmitPendingKept ==
  ASSUME StoreInd, AuditInd, NEW r \in Readers, EmitPending(r)
  PROVE  StoreInd' /\ AuditInd'
<1> DEFINE e == Head(flush[r].todo)
<1>1. /\ flush[r].todo # <<>>
      /\ log' = [log EXCEPT ![e[2]] = IF Contains(@, e[1]) THEN @ ELSE Append(@, e[1])]
      /\ flush' = [flush EXCEPT ![r].emitted = TRUE]
      /\ UNCHANGED <<open, storeVars>>
  BY DEF EmitPending
<1>2. StoreInd'
  BY <1>1, StoreRests
<1>3. /\ flush \in [Readers -> Flushes] /\ log \in [Sessions -> Seq(Nat)]
      /\ AuditNotLost /\ RowsNamed /\ \A x \in Readers : FlushSound(flush[x])
  BY AuditParts
<1>4. flush[r] \in Flushes /\ flush[r].todo \in Seq(Nat \X Sessions)
  BY <1>3 DEF Flushes
<1>5. e = flush[r].todo[1] /\ 1 \in DOMAIN flush[r].todo /\ e \in Nat \X Sessions
  BY <1>1, <1>4
<1>6. Sent(e)
  BY <1>3, <1>5 DEF FlushSound
<1>7. PICK id \in Nat, s \in Sessions : e[1] = id /\ e[2] = s
  BY <1>5
<1>8. \A a \in attempts : a.id = id => a.session = s
  BY <1>6, <1>7 DEF Sent
<1> HIDE DEF e
<1> DEFINE q == log[s]  p == IF Contains(q, id) THEN q ELSE Append(q, id)
<1>9. q \in Seq(Nat) /\ log' = [log EXCEPT ![s] = p]
  BY <1>1, <1>3, <1>7
<1> HIDE DEF q
<1>10. /\ p \in Seq(Nat) /\ Contains(p, id) /\ \A m : Contains(q, m) => Contains(p, m)
       /\ (\A i, j \in DOMAIN q : q[i] = q[j] => i = j)
            => \A i, j \in DOMAIN p : p[i] = p[j] => i = j
  BY <1>9, ContainsAppended
<1> HIDE DEF p
<1>11. log' \in [Sessions -> Seq(Nat)] /\ log'[s] = p /\ \A t \in Sessions \ {s} : log'[t] = log[t]
  BY <1>3, <1>9, <1>10
<1>12. \A t \in Sessions : \A m : Contains(log[t], m) => Contains(log'[t], m)
  BY <1>10, <1>11 DEF q
<1>13. made' = made /\ attempts' = attempts /\ outbox' = outbox
  BY <1>1 DEF storeVars
<1>14. \A a \in attempts : a.session \in Sessions
  BY AttemptFields
<1>15. AuditNotLost'
  <2>1. \A t \in Sessions : \A i, j \in DOMAIN log'[t] : log'[t][i] = log'[t][j] => i = j
    BY <1>3, <1>10, <1>11 DEF AuditNotLost, q
  <2>2. \A a \in attempts : Contains(log'[a.session], a.id)
          \/ \E x \in outbox : x.event = a.id /\ ~x.delivered
    BY <1>3, <1>12, <1>14 DEF AuditNotLost
  <2> QED BY <1>13, <2>1, <2>2 DEF AuditNotLost
<1>16. RowsNamed'
  BY <1>3, <1>13 DEF RowsNamed
<1>17. PICK g : g = [flush[r] EXCEPT !.emitted = TRUE]
  OBVIOUS
<1>18. g \in Flushes /\ g.todo = flush[r].todo
  BY <1>4, <1>17 DEF Flushes
<1>19. \A n : Logged(n) => Logged(n)'
  BY <1>12, <1>13, <1>14 DEF Logged
<1>20. \A n : Sent(n) => Sent(n)'
  BY <1>13 DEF Sent
<1>21. Logged(id)'
  BY <1>8, <1>10, <1>11, <1>13 DEF Logged
<1>22. FlushSound(g)'
  <2>1. \A i \in DOMAIN g.todo : Sent(g.todo[i])'
    BY <1>3, <1>18, <1>20 DEF FlushSound
  <2>2. g.todo # <<>> /\ Head(g.todo)[1] = id
    BY <1>1, <1>7, <1>18 DEF e
  <2> QED BY <1>21, <2>1, <2>2 DEF FlushSound
<1>23. \A f : FlushSound(f) => FlushSound(f)'
  BY <1>19, <1>20 DEF FlushSound
<1>24. PICK F : F = flush'
  OBVIOUS
<1>25. flush' = [flush EXCEPT ![r] = g]
  BY <1>1, <1>3, <1>17
<1>26. \A x \in Readers : F[x] = g \/ F[x] = flush[x]
  BY <1>3, <1>24, <1>25
<1>27. \A x \in Readers : FlushSound(F[x])'
  BY <1>3, <1>22, <1>23, <1>26
<1>28. flush' \in [Readers -> Flushes] /\ open' = open
  BY <1>1, <1>3, <1>18, <1>25
<1> QED BY <1>2, <1>11, <1>15, <1>16, <1>24, <1>27, <1>28, AuditParts, AuditWhole

\* A row that is marked was emitted: its audit is in the log.
LEMMA MarkPendingKept ==
  ASSUME StoreInd, AuditInd, NEW r \in Readers, MarkPending(r)
  PROVE  StoreInd' /\ AuditInd'
<1> DEFINE id == Head(flush[r].todo)[1]  T == Tail(flush[r].todo)
<1>1. /\ flush[r].emitted /\ MarkEventDelivered(id)
      /\ flush' = [flush EXCEPT ![r] = Flushing(Tail(@.todo))] /\ UNCHANGED <<open, log>>
  BY DEF MarkPending
<1>2. StoreInd'
  BY <1>1, MarkKeeps
<1>3. /\ flush \in [Readers -> Flushes] /\ log \in [Sessions -> Seq(Nat)]
      /\ AuditNotLost /\ RowsNamed /\ \A x \in Readers : FlushSound(flush[x])
  BY AuditParts
<1>4. flush[r] \in Flushes /\ flush[r].todo \in Seq(Nat \X Sessions)
  BY <1>3 DEF Flushes
<1>5. flush[r].todo # <<>> /\ Logged(id)
  BY <1>1, <1>3 DEF FlushSound
<1>6. /\ made' = made /\ attempts' = attempts
      /\ outbox' = {IF x.event = id THEN [x EXCEPT !.delivered = TRUE] ELSE x : x \in outbox}
  BY <1>1 DEF MarkEventDelivered
<1>7. T \in Seq(Nat \X Sessions)
      /\ \A i \in DOMAIN T : i + 1 \in DOMAIN flush[r].todo /\ T[i] = flush[r].todo[i + 1]
  BY <1>4, <1>5
<1>8. PICK g : g = Flushing(T)
  OBVIOUS
<1>9. flush' = [flush EXCEPT ![r] = g]
  BY <1>1, <1>3, <1>8
<1> HIDE DEF id, T
<1>10. g \in Flushes /\ g.todo = T /\ g.emitted = FALSE
  BY <1>7, <1>8 DEF Flushing, Flushes
<1>11. AuditNotLost'
  <2>1. ASSUME NEW a \in attempts
        PROVE  Contains(log[a.session], a.id) \/ \E x \in outbox' : x.event = a.id /\ ~x.delivered
    <3>1. CASE a.id = id
      BY <1>5, <3>1 DEF Logged
    <3>2. CASE a.id # id
      <4>1. ASSUME NEW x \in outbox, x.event = a.id PROVE x \in outbox'
        BY <1>6, <3>2, <4>1
      <4> QED BY <1>3, <4>1 DEF AuditNotLost
    <3> QED BY <3>1, <3>2
  <2> QED BY <1>1, <1>3, <1>6, <2>1 DEF AuditNotLost
<1>12. RowsNamed'
  <2>1. ASSUME NEW y \in outbox'
        PROVE  \E x \in outbox : y.event = x.event /\ y.session = x.session
    <3>1. PICK x \in outbox : y = IF x.event = id THEN [x EXCEPT !.delivered = TRUE] ELSE x
      BY <1>6
    <3>2. x \in [event : 1..made, session : Sessions, delivered : BOOLEAN]
      BY DEF StoreInd, StoreTypeOK
    <3> QED BY <3>1, <3>2
  <2> QED BY <1>3, <1>6, <2>1 DEF RowsNamed
<1>13. \A f : FlushSound(f) => FlushSound(f)'
  BY <1>1, <1>6 DEF FlushSound, Sent, Logged
<1>14. FlushSound(g)
  <2>1. \A i \in DOMAIN T : Sent(T[i])
    BY <1>3, <1>7 DEF FlushSound
  <2> QED BY <1>10, <2>1 DEF FlushSound
<1>15. PICK F : F = flush'
  OBVIOUS
<1>16. \A x \in Readers : F[x] = g \/ F[x] = flush[x]
  BY <1>3, <1>9, <1>15
<1>17. \A x \in Readers : FlushSound(F[x])'
  BY <1>3, <1>13, <1>14, <1>16
<1>18. flush' \in [Readers -> Flushes] /\ open' = open /\ log' = log
  BY <1>1, <1>3, <1>9, <1>10
<1> QED BY <1>2, <1>3, <1>11, <1>12, <1>15, <1>17, <1>18, AuditParts, AuditWhole

LEMMA AuditStarts ==
  ASSUME StoreInit, AuditInit
  PROVE  AuditInd
<1>1. NotFlushing \in Flushes /\ NotFlushing.todo = <<>> /\ NotFlushing.emitted = FALSE
  BY RestSound DEF NotFlushing
<1>2. \A s \in Sessions : log[s] = <<>> /\ <<>> \in Seq(Nat) /\ DOMAIN <<>> = {}
  BY DEF AuditInit
<1>3. AuditTypeOK
  BY <1>1, <1>2 DEF AuditInit, AuditTypeOK, Flushes
<1>4. AuditNotLost
  BY <1>2 DEF StoreInit, AuditInit, AuditNotLost
<1>5. \A r \in Readers : flush[r].todo = <<>> /\ flush[r].emitted = FALSE
  BY <1>1 DEF AuditInit
<1>6. Addressed /\ EmittedFirst
  BY <1>2, <1>5 DEF StoreInit, Addressed, EmittedFirst
<1> QED BY <1>3, <1>4, <1>6 DEF AuditInd

LEMMA AuditStep ==
  ASSUME StoreInd, AuditInd, AuditNext
  PROVE  StoreInd' /\ AuditInd'
<1>1. CASE DieFlushing
  BY <1>1, DieFlushingKept
<1>2. CASE \E r \in Readers : Flush(r)
  BY <1>2, EmitPendingKept, MarkPendingKept, EndFlushKept DEF Flush
<1>3. ASSUME NEW s \in Sessions,
             \/ DeleteWithEvents(s)
             \/ DeleteAndDie(s)
             \/ \E r \in Readers : ReadLearner(r, s)
             \/ \E i \in Items, hints \in HintCounts : \E grade \in GradesOf(i) :
                  \/ \E r \in Readers : Answer(r, s, Submission(s, i, grade, hints))
                  \/ AnswerAndDie(s, Submission(s, i, grade, hints))
      PROVE  StoreInd' /\ AuditInd'
  <2>1. CASE DeleteWithEvents(s)
    BY <2>1, DeleteWithEventsKept
  <2>2. CASE DeleteAndDie(s)
    BY <2>2, DeleteAndDieKept
  <2>3. CASE \E r \in Readers : ReadLearner(r, s)
    BY <2>3, ReadLearnerKept
  <2>4. ASSUME NEW i \in Items, NEW hints \in HintCounts, NEW grade \in GradesOf(i),
               \/ \E r \in Readers : Answer(r, s, Submission(s, i, grade, hints))
               \/ AnswerAndDie(s, Submission(s, i, grade, hints))
        PROVE  StoreInd' /\ AuditInd'
    <3>1. PICK a \in Answers : a = Submission(s, i, grade, hints)
      BY SubmissionIsAnswer
    <3>2. (\E r \in Readers : Answer(r, s, a)) \/ AnswerAndDie(s, a)
      BY <2>4, <3>1
    <3> QED BY <3>2, AnswerKept, AnswerAndDieKept
  <2> QED BY <1>3, <2>1, <2>2, <2>3, <2>4
<1> QED BY <1>1, <1>2, <1>3 DEF AuditNext

(* The quiz.                                                                 *)

Texts == Concepts \cup {NoConcept}

LEMMA QuizParts ==
  ASSUME QuizInd, NEW s \in Sessions
  PROVE  /\ row[s] \in Row \cup {None} /\ turn[s] \in Turn /\ hinted[s] \in SUBSET Items
         /\ row \in [Sessions -> Row \cup {None}] /\ turn \in [Sessions -> Turn]
         /\ hinted \in [Sessions -> SUBSET Items] /\ born \in SUBSET Sessions
         /\ s \notin born => row[s] = None /\ turn[s] = Idle /\ hinted[s] = {}
         /\ row[s] # None => row[s] \in Row /\ Sound(s, row[s])
         /\ turn[s] # Idle => row[s] # None /\ Sound(s, turn[s].obj)
         /\ turn[s].at = "taught" => OneStep(turn[s].obj, turn[s].out)
BY DEF QuizInd, QuizTypeOK

LEMMA TurnFields ==
  ASSUME QuizInd, NEW s \in Sessions, turn[s].at # "idle"
  PROVE  /\ turn[s] # Idle /\ s \in born /\ row[s] # None
         /\ turn[s].obj \in Row /\ Sound(s, turn[s].obj)
         /\ turn[s].at # "taught" =>
              turn[s] \in [at : {"created", "prompted", "marked"}, obj : Row]
         /\ turn[s].at = "taught" =>
              turn[s].out \in Outcome /\ OneStep(turn[s].obj, turn[s].out)
<1>1. turn[s] # Idle
  BY DEF Idle
<1>2. turn[s] \in [at : {"created", "prompted", "marked"}, obj : Row]
      \/ turn[s] \in [at : {"taught"}, obj : Row, out : Outcome]
  BY <1>1, QuizParts DEF Turn
<1> QED BY <1>1, <1>2, QuizParts

LEMMA SoundStays ==
  ASSUME NEW s, NEW r, Sound(s, r),
         \A i \in hinted'[s] : i \in hinted[s] /\ \A a \in attempts : a.session = s => a \in attempts'
  PROVE  Sound(s, r)'
BY DEF Sound

\* A step of one session.
LEMMA QuizWhole ==
  ASSUME QuizInd, NEW s \in Sessions,
         NEW R \in Row \cup {None}, NEW T \in Turn, NEW H \in SUBSET Items,
         row' = [row EXCEPT ![s] = R], turn' = [turn EXCEPT ![s] = T],
         hinted' = [hinted EXCEPT ![s] = H],
         born' \in SUBSET Sessions, born \subseteq born', s \in born',
         R # None => Sound(s, R)', T # Idle => R # None /\ Sound(s, T.obj)',
         T.at = "taught" => OneStep(T.obj, T.out),
         \A t \in Sessions \ {s} : \A a \in attempts : a.session = t => a \in attempts'
  PROVE  QuizInd'
<1>1. row \in [Sessions -> Row \cup {None}] /\ turn \in [Sessions -> Turn]
      /\ hinted \in [Sessions -> SUBSET Items]
  BY DEF QuizInd, QuizTypeOK
<1>2. QuizTypeOK'
  BY <1>1 DEF QuizTypeOK
<1>3. row'[s] = R /\ turn'[s] = T /\ hinted'[s] = H
  BY <1>1
<1>4. ASSUME NEW t \in Sessions \ {s}
      PROVE  row'[t] = row[t] /\ turn'[t] = turn[t] /\ hinted'[t] = hinted[t]
  BY <1>1
<1>5. ASSUME NEW t \in Sessions, t \notin born'
      PROVE  row'[t] = None /\ turn'[t] = Idle /\ hinted'[t] = {}
  BY <1>4, <1>5 DEF QuizInd
<1>6. ASSUME NEW t \in Sessions \ {s}, NEW r, Sound(t, r) PROVE Sound(t, r)'
  BY <1>4, <1>6, SoundStays
<1>7. ASSUME NEW t \in Sessions, row'[t] # None PROVE Sound(t, row[t])'
  <2>1. PICK r : r = row'[t]
    OBVIOUS
  <2>2. Sound(t, r)'
    <3>1. CASE t = s
      BY <1>3, <1>7, <2>1, <3>1
    <3>2. CASE t # s
      BY <1>4, <1>6, <1>7, <2>1, <3>2 DEF QuizInd
    <3> QED BY <3>1, <3>2
  <2> QED BY <2>1, <2>2 DEF Sound
<1>8. ASSUME NEW t \in Sessions, turn'[t] # Idle PROVE row'[t] # None /\ Sound(t, turn[t].obj)'
  <2>1. PICK r : r = turn'[t].obj
    OBVIOUS
  <2>2. Sound(t, r)'
    <3>1. CASE t = s
      BY <1>3, <1>8, <2>1, <3>1
    <3>2. CASE t # s
      BY <1>4, <1>6, <1>8, <2>1, <3>2 DEF QuizInd
    <3> QED BY <3>1, <3>2
  <2>3. row'[t] # None
    <3>1. CASE t = s
      BY <1>3, <1>8, <3>1
    <3>2. CASE t # s
      BY <1>4, <1>8, <3>2 DEF QuizInd
    <3> QED BY <3>1, <3>2
  <2> QED BY <2>1, <2>2, <2>3 DEF Sound
<1>9. ASSUME NEW t \in Sessions, turn'[t].at = "taught" PROVE OneStep(turn'[t].obj, turn'[t].out)
  <2>1. CASE t = s
    BY <1>3, <1>9, <2>1
  <2>2. CASE t # s
    BY <1>4, <1>9, <2>2 DEF QuizInd
  <2> QED BY <2>1, <2>2
<1> QED BY <1>2, <1>5, <1>7, <1>8, <1>9 DEF QuizInd, Idle, OneStep, Prior, Fresh

\* A step the process dies in.
LEMMA QuizDied ==
  ASSUME QuizInd, row' = row, turn' = [s \in Sessions |-> Idle], born' = born,
         hinted' \in [Sessions -> SUBSET Items],
         \A s \in Sessions : \A i \in hinted'[s] :
           i \in hinted[s] /\ \A a \in attempts : a.session = s => a \in attempts'
  PROVE  QuizInd'
<1>1. Idle \in Turn /\ Idle.at = "idle"
  BY DEF Idle, Turn
<1>2. QuizTypeOK'
  BY <1>1 DEF QuizInd, QuizTypeOK
<1>3. ASSUME NEW s \in Sessions, row'[s] # None PROVE Sound(s, row[s])'
  <2>1. PICK r : r = row[s] /\ r = row'[s]
    OBVIOUS
  <2>2. Sound(s, r)
    BY <1>3, <2>1 DEF QuizInd
  <2>3. Sound(s, r)'
    BY <2>2, SoundStays
  <2> QED BY <2>1, <2>3 DEF Sound
<1>4. \A s \in Sessions : turn'[s] = Idle
  OBVIOUS
<1>5. ASSUME NEW s \in Sessions, s \notin born'
      PROVE  row'[s] = None /\ hinted'[s] = {}
  BY <1>5 DEF QuizInd
<1> QED BY <1>1, <1>2, <1>3, <1>4, <1>5 DEF QuizInd, Idle

(* The bank and what is issued from it.                                      *)

LEMMA BankQuestion ==
  ASSUME NEW n \in DOMAIN Bank
  PROVE  Bank[n] \in Question /\ Bank[n].item \in BankItems
         /\ Bank[n].concept \in Texts /\ Bank[n].item \in Items
<1>1. Bank \in Seq(Question)
  BY BankAssumption
<1>2. Bank[n] \in Question
  BY <1>1
<1> QED BY <1>2 DEF Question, BankItems, Texts

LEMMA QuestionFound ==
  ASSUME NEW i \in BankItems
  PROVE  QuestionOf(i) \in Question /\ QuestionOf(i).item = i
<1>1. \E n \in DOMAIN Bank : Bank[n].item = i
  BY DEF BankItems
<1>2. PICK m : m = CHOOSE n \in DOMAIN Bank : Bank[n].item = i
  OBVIOUS
<1>3. m \in DOMAIN Bank /\ Bank[m].item = i
  BY <1>1, <1>2
<1> QED BY <1>2, <1>3, BankQuestion DEF QuestionOf

LEMMA NextIsCandidate ==
  ASSUME NEW c, NEW d, NEW pos \in Nat, Candidates(c, d) # {}
  PROVE  \E n \in DOMAIN Bank : NextQuestion(c, d, pos) = Bank[n]
<1> DEFINE S == Candidates(c, d)  rows == InOrder(S)  k == Cardinality(S)
<1>1. Bank \in Seq(Question) /\ DOMAIN Bank = 1..Len(Bank) /\ Len(Bank) \in Nat
  BY BankAssumption
<1>2. S \subseteq DOMAIN Bank
  BY DEF Candidates
<1>3. NextQuestion(c, d, pos) = Bank[rows[(pos % Len(rows)) + 1]]
  BY DEF NextQuestion
<1>4. IsFiniteSet(1..Len(Bank))
  BY <1>1, FS_Interval
<1>5. S # {}
  OBVIOUS
<1> HIDE DEF S
<1>6. IsFiniteSet(S)
  BY <1>1, <1>2, <1>4, FS_Subset
<1>7. S \in SUBSET Nat
  BY <1>1, <1>2
<1>8. k \in Nat /\ rows \in [1..k -> S]
  BY <1>6, <1>7, InOrderLists
<1>9. k # 0
  BY <1>5, <1>6, FS_EmptySet
<1> HIDE DEF rows, k
<1>10. rows \in Seq(S) /\ Len(rows) = k
  BY <1>8, SeqDef
<1>11. (pos % k) + 1 \in 1..k
  BY <1>8, <1>9
<1>12. rows[(pos % Len(rows)) + 1] \in S
  BY <1>8, <1>10, <1>11
<1> QED BY <1>2, <1>3, <1>12

LEMMA FreshTyped ==
  ASSUME NEW c \in Texts
  PROVE  Fresh(c) \in Teaching /\ Fresh(c).concept = c /\ Fresh(c).level = 0
         /\ Fresh(c).attempts = 0 /\ Fresh(c).streak = 0 /\ Fresh(c).shown = {}
<1>1. HintMaxLevel \in Nat /\ MaxTurns \in Nat
  BY LimitAssumption
<1> QED BY <1>1 DEF Fresh, Teaching, Texts

LEMMA RowFields ==
  ASSUME NEW r \in Row
  PROVE  /\ r.exp \in Experiment /\ r.quiz \in Quiz \cup {None} /\ r.pos \in Nat
         /\ r.teach \in Teaching
         /\ r = [exp |-> r.exp, quiz |-> r.quiz, pos |-> r.pos, teach |-> r.teach]
BY DEF Row

LEMMA TeachingFields ==
  ASSUME NEW t \in Teaching
  PROVE  /\ t.concept \in Texts /\ t.level \in 0..HintMaxLevel /\ t.turns \in 0..MaxTurns
         /\ t.attempts \in Nat /\ t.streak \in Nat /\ t.misconceptions \in 0..1
         /\ t.shown \in SUBSET (1..HintMaxLevel)
         /\ t = [concept |-> t.concept, level |-> t.level, turns |-> t.turns,
                 attempts |-> t.attempts, streak |-> t.streak,
                 misconceptions |-> t.misconceptions, shown |-> t.shown]
BY DEF Teaching, Texts

LEMMA QuizFields ==
  ASSUME NEW q \in Quiz
  PROVE  /\ q.item \in BankItems /\ q.concept \in Texts /\ q.hints \in Nat
         /\ q.attempts \in Nat /\ q.streak \in Nat
         /\ q = [item |-> q.item, concept |-> q.concept, hints |-> q.hints,
                 attempts |-> q.attempts, streak |-> q.streak]
BY DEF Quiz, Texts

\* QuizService.issue keeps an object sound.
LEMMA IssueSound ==
  ASSUME NEW s, NEW r \in Row, Sound(s, r), NEW c, NEW d
  PROVE  Issue(r, c, d) \in Row /\ Sound(s, Issue(r, c, d))
<1>1. CASE ~MayIssue(r, c, d)
  BY <1>1 DEF Issue
<1>2. CASE MayIssue(r, c, d)
  <2>1. r.quiz = None /\ Candidates(AskedConcept(r, c), d) # {} /\ r.pos \in Nat
    BY <1>2, RowFields DEF MayIssue
  <2>2. PICK n \in DOMAIN Bank : NextQuestion(AskedConcept(r, c), d, r.pos) = Bank[n]
    <3>1. PICK x : x = AskedConcept(r, c)
      OBVIOUS
    <3>2. PICK p \in Nat : p = r.pos
      BY <2>1
    <3> QED BY <2>1, <3>1, <3>2, NextIsCandidate
  <2>3. PICK i \in BankItems, x \in Texts : Bank[n].item = i /\ Bank[n].concept = x
    BY BankQuestion
  <2>4. PICK f : f = Fresh(x)
    OBVIOUS
  <2>5. f \in Teaching /\ f.concept = x /\ f.level = 0 /\ f.attempts = 0 /\ f.streak = 0
        /\ f.shown = {}
    BY <2>4, FreshTyped
  <2>6. PICK q : q = [item |-> i, concept |-> x, hints |-> 0, attempts |-> 0, streak |-> 0]
    OBVIOUS
  <2>7. q \in Quiz
    BY <2>6 DEF Quiz, Texts
  <2>8. Issue(r, c, d) = Issued(r, Bank[n])
    BY <1>2, <2>2 DEF Issue
  <2>9. PICK b, new : b = Bank[n] /\ new = Issued(r, b)
    OBVIOUS
  <2>10. PICK p \in Nat : p = r.pos + 1
    BY <2>1
  <2>11. new = [r EXCEPT !.pos = p, !.quiz = q, !.teach = f]
    BY <2>3, <2>4, <2>6, <2>9, <2>10 DEF Issued
  <2>12. new \in Row /\ new.quiz = q /\ new.teach = f
    BY <2>5, <2>7, <2>11 DEF Row
  <2>13. \A j \in hinted[s] : \E a \in attempts : a.session = s /\ a.item = j
    BY <2>1 DEF Sound
  <2>14. q.concept = x /\ q.attempts = 0 /\ q.streak = 0
    BY <2>6
  <2>15. 1..f.level = {}
    BY <2>5
  <2>16. Sound(s, new)
    BY <2>5, <2>12, <2>13, <2>14, <2>15 DEF Sound
  <2>17. Issue(r, c, d) = new
    BY <2>8, <2>9
  <2> QED BY <2>12, <2>16, <2>17
<1> QED BY <1>1, <1>2

(* The steps of the quiz.                                                    *)

LEMMA GenerateQuizKept ==
  ASSUME StoreInd, QuizInd, NEW s \in Sessions, NEW c, NEW d, GenerateQuiz(s, c, d)
  PROVE  QuizInd'
<1> DEFINE new == Issue(row[s], c, AskedDifficulty(row[s], c, d))
<1>1. row[s] # None /\ row' = [row EXCEPT ![s] = new]
      /\ UNCHANGED <<born, turn, hinted, storeVars>>
  <2>1. row[s] # None /\ row' = [row EXCEPT ![s] = Issue(@, c, AskedDifficulty(@, c, d))]
        /\ UNCHANGED <<born, turn, hinted, storeVars>>
    BY DEF GenerateQuiz
  <2>2. row \in [Sessions -> Row \cup {None}]
    BY QuizParts
  <2> QED BY <2>1, <2>2
<1>2. attempts' = attempts /\ turn' = turn /\ hinted' = hinted /\ born' = born
  BY <1>1 DEF storeVars
<1>3. PICK D : D = AskedDifficulty(row[s], c, d)
  OBVIOUS
<1>4. PICK r \in Row : r = row[s] /\ Sound(s, r)
  BY <1>1, QuizParts
<1>5. Issue(r, c, D) \in Row /\ Sound(s, Issue(r, c, D))
  BY <1>4, IssueSound
<1>6. PICK R \in Row : R = new /\ Sound(s, R)
  BY <1>3, <1>4, <1>5
<1> HIDE DEF new
<1>7. Sound(s, R)'
  BY <1>2, <1>6, SoundStays
<1>8. PICK T \in Turn, H \in SUBSET Items : T = turn[s] /\ H = hinted[s]
  BY QuizParts
<1>9. T # Idle => R # None /\ Sound(s, T.obj)'
  <2>1. T # Idle => Sound(s, T.obj)
    BY <1>8, QuizParts
  <2> QED BY <1>2, <1>6, <2>1, SoundStays, NoneNotRow
<1>10. T.at = "taught" => OneStep(T.obj, T.out)
  BY <1>8, QuizParts
<1>11. turn' = [turn EXCEPT ![s] = T] /\ hinted' = [hinted EXCEPT ![s] = H]
       /\ row' = [row EXCEPT ![s] = R]
  BY <1>1, <1>2, <1>6, <1>8, QuizParts
<1>12. born' \in SUBSET Sessions /\ born \subseteq born' /\ s \in born'
  BY <1>1, <1>2, QuizParts
<1> QED BY <1>2, <1>7, <1>9, <1>10, <1>11, <1>12, QuizWhole

\* What the quiz submits to the store.
LEMMA SubmittedIsAnswer ==
  ASSUME QuizInd, NEW s \in Sessions, NEW grade, MayAnswer(s, grade)
  PROVE  /\ Submitted(s, grade) \in Answers
         /\ Submitted(s, grade).session = s
         /\ Submitted(s, grade).item = row[s].quiz.item
         /\ Submitted(s, grade).hints = row[s].quiz.hints
<1>1. row[s] \in Row /\ row[s].quiz # None
  BY QuizParts DEF MayAnswer
<1>2. row[s].quiz \in Quiz /\ row[s].exp \in Experiment
  BY <1>1, RowFields
<1>3. PICK i \in BankItems, h \in Nat : i = row[s].quiz.item /\ h = row[s].quiz.hints
  BY <1>2, QuizFields
<1>4. PICK p \in Snapshots : p = row[s].exp.snapshot
  BY <1>2 DEF Experiment
<1>5. PICK q \in Question : q = QuestionOf(i) /\ q.item = i
  BY QuestionFound
<1>6. PICK c \in Texts, one \in BOOLEAN : c = q.concept /\ one = q.single /\ i \in Items
  BY <1>5 DEF Question, Texts
<1>7. grade \in {"right", "wrong", "none"}
  <2>1. grade \in Grades(q)
    BY <1>3, <1>5 DEF MayAnswer
  <2> QED BY <2>1 DEF Grades
<1> DEFINE e == Enabled(row[s])
<1>8. e \in BOOLEAN
  BY DEF Enabled
<1>9. Submitted(s, grade) =
        [session |-> s, item |-> row[s].quiz.item, concept |-> QuestionOf(row[s].quiz.item).concept,
         single |-> QuestionOf(row[s].quiz.item).single, grade |-> grade,
         hints |-> row[s].quiz.hints, enabled |-> e, snapshot |-> row[s].exp.snapshot]
  BY DEF Submitted
<1> HIDE DEF e
<1>10. Submitted(s, grade) =
        [session |-> s, item |-> i, concept |-> c, single |-> one, grade |-> grade,
         hints |-> h, enabled |-> e, snapshot |-> p]
  BY <1>3, <1>4, <1>5, <1>6, <1>9
<1> QED BY <1>3, <1>6, <1>7, <1>8, <1>10 DEF Answers, Texts

\* What an answer leaves of the object, next to the attempt it recorded.
LEMMA AnsweredTyped ==
  ASSUME NEW r \in Row, r.quiz # None, NEW grade \in {"right", "wrong", "none"}
  PROVE  LET R == Answered(r, grade)
         IN  /\ R \in Row
             /\ R.teach.level = r.teach.level /\ R.teach.shown = r.teach.shown
             /\ R.quiz # None =>
                  /\ R.quiz.item = r.quiz.item /\ R.quiz.hints = r.quiz.hints
                  /\ R.teach.concept = R.quiz.concept
                  /\ R.teach.attempts = R.quiz.attempts
                  /\ R.teach.streak = R.quiz.streak
<1>1. r.quiz \in Quiz /\ r.teach \in Teaching /\ r.exp \in Experiment /\ r.pos \in Nat
  BY RowFields
<1>2. PICK z \in Quiz, t \in Teaching : r.quiz = z /\ r.teach = t
  BY <1>1
<1>3. z.concept \in Texts /\ z.attempts \in Nat /\ z.streak \in Nat
  BY QuizFields
<1>4. PICK c \in Texts, n \in Nat, k \in Nat :
        c = z.concept /\ n = z.attempts + 1 /\ k = StreakAfter(z, grade)
  BY <1>3 DEF StreakAfter
<1>5. PICK m \in 0..1 : m = MisconceptionsAfter(t, grade)
  BY TeachingFields DEF MisconceptionsAfter
<1>6. PICK z2 : z2 = [z EXCEPT !.attempts = n, !.streak = k]
  OBVIOUS
<1>7. z2 \in Quiz /\ z2.item = z.item /\ z2.concept = c /\ z2.hints = z.hints
      /\ z2.attempts = n /\ z2.streak = k
  BY <1>4, <1>6 DEF Quiz
<1>8. PICK t2 : t2 = [t EXCEPT !.concept = c, !.attempts = n, !.streak = k, !.misconceptions = m]
  OBVIOUS
<1>9. t2 \in Teaching /\ t2.concept = c /\ t2.attempts = n /\ t2.streak = k
      /\ t2.level = t.level /\ t2.shown = t.shown
  BY <1>8 DEF Teaching, Texts
<1>10. PICK y : y = IF grade = "right" THEN None ELSE z2
  OBVIOUS
<1>11. PICK R : R = [r EXCEPT !.quiz = y, !.teach = t2]
  OBVIOUS
<1>12. Answered(r, grade) = R
  <2> DEFINE Q == [r.quiz EXCEPT !.attempts = r.quiz.attempts + 1, !.streak = StreakAfter(r.quiz, grade)]
             U == [r.teach EXCEPT !.concept = r.quiz.concept, !.attempts = r.quiz.attempts + 1,
                     !.streak = StreakAfter(r.quiz, grade),
                     !.misconceptions = MisconceptionsAfter(r.teach, grade)]
  <2>1. Answered(r, grade) = [r EXCEPT !.quiz = IF grade = "right" THEN None ELSE Q, !.teach = U]
    BY DEF Answered
  <2>2. z2 = Q
    BY <1>2, <1>4, <1>6
  <2>3. t2 = U
    BY <1>2, <1>4, <1>5, <1>8
  <2> HIDE DEF Q, U
  <2> QED BY <1>10, <1>11, <2>1, <2>2, <2>3
<1>15. R \in Row /\ R.quiz = y /\ R.teach = t2
  <2>1. y \in Quiz \cup {None}
    BY <1>7, <1>10
  <2> QED BY <1>9, <1>11, <2>1 DEF Row
<1>18. y # None => y = z2
  BY <1>10
<1>19. R.quiz # None => R.quiz = z2
  BY <1>15, <1>18
<1>20. R.teach.level = r.teach.level /\ R.teach.shown = r.teach.shown
  BY <1>2, <1>9, <1>15
<1>21. R.quiz # None =>
         /\ R.quiz.item = r.quiz.item /\ R.quiz.hints = r.quiz.hints
         /\ R.teach.concept = R.quiz.concept
         /\ R.teach.attempts = R.quiz.attempts
         /\ R.teach.streak = R.quiz.streak
  BY <1>2, <1>7, <1>9, <1>15, <1>19
<1> QED BY <1>12, <1>15, <1>20, <1>21

LEMMA RecordGrows ==
  ASSUME NEW a \in Answers, RecordAttempt(a)
  PROVE  attempts \subseteq attempts'
         /\ \E b \in attempts' : b.session = a.session /\ b.item = a.item
<1>1. attempts' = attempts \cup {Recorded(a)}
  BY RecordEquations
<1>2. Recorded(a).session = a.session /\ Recorded(a).item = a.item
  BY RecordedFields
<1> QED BY <1>1, <1>2

\* An answer leaves a sound object, or the attempt that stands in for it.
LEMMA AnswerQuizKept ==
  ASSUME StoreInd, QuizInd, NEW s \in Sessions, NEW grade \in {"right", "wrong", "none"},
         AnswerQuiz(s, grade)
  PROVE  QuizInd'
<1>1. MayAnswer(s, grade) /\ RecordAttempt(Submitted(s, grade))
      /\ row' = [row EXCEPT ![s] = Answered(row[s], grade)]
      /\ born' = born /\ turn' = turn /\ hinted' = hinted
  <2>1. row \in [Sessions -> Row \cup {None}]
    BY QuizParts
  <2> QED BY <2>1 DEF AnswerQuiz
<1>2. PICK r \in Row : r = row[s] /\ Sound(s, r) /\ r.quiz # None
  BY <1>1, QuizParts DEF MayAnswer
<1>3. PICK a \in Answers : a = Submitted(s, grade) /\ a.session = s /\ a.item = r.quiz.item
  BY <1>1, <1>2, SubmittedIsAnswer
<1>4. attempts \subseteq attempts' /\ \E b \in attempts' : b.session = s /\ b.item = r.quiz.item
  BY <1>1, <1>3, RecordGrows
<1>5. PICK R \in Row : R = Answered(r, grade)
  BY <1>2, AnsweredTyped
<1>6. /\ R.teach.level = r.teach.level /\ R.teach.shown = r.teach.shown
      /\ R.quiz # None =>
           /\ R.quiz.item = r.quiz.item /\ R.quiz.hints = r.quiz.hints
           /\ R.teach.concept = R.quiz.concept
           /\ R.teach.attempts = R.quiz.attempts
           /\ R.teach.streak = R.quiz.streak
  BY <1>2, <1>5, AnsweredTyped
<1>7. Sound(s, R)'
  <2>1. ASSUME NEW i \in hinted'[s]
        PROVE  \E b \in attempts' : b.session = s /\ b.item = i
    <3>1. (\E b \in attempts : b.session = s /\ b.item = i) \/ r.quiz.item = i
      BY <1>1, <1>2 DEF Sound
    <3> QED BY <1>4, <3>1
  <2>2. 1..R.teach.level \subseteq R.teach.shown
    BY <1>2, <1>6 DEF Sound
  <2> QED BY <1>6, <2>1, <2>2 DEF Sound
<1>8. PICK T \in Turn, H \in SUBSET Items : T = turn[s] /\ H = hinted[s]
  BY QuizParts
<1>9. T # Idle => R # None /\ Sound(s, T.obj)'
  <2>1. T # Idle => Sound(s, T.obj)
    BY <1>8, QuizParts
  <2> QED BY <1>1, <1>4, <1>5, <2>1, SoundStays, NoneNotRow
<1>10. T.at = "taught" => OneStep(T.obj, T.out)
  BY <1>8, QuizParts
<1>11. turn' = [turn EXCEPT ![s] = T] /\ hinted' = [hinted EXCEPT ![s] = H]
       /\ row' = [row EXCEPT ![s] = R]
  BY <1>1, <1>2, <1>5, <1>8, QuizParts
<1>12. born' \in SUBSET Sessions /\ born \subseteq born' /\ s \in born'
  BY <1>1, QuizParts DEF MayAnswer
<1> QED BY <1>4, <1>7, <1>9, <1>10, <1>11, <1>12, QuizWhole

LEMMA CrashInAnswerKept ==
  ASSUME StoreInd, QuizInd, NEW s \in Sessions, NEW grade, CrashInAnswer(s, grade)
  PROVE  QuizInd'
<1>1. MayAnswer(s, grade) /\ RecordAttempt(Submitted(s, grade)) /\ row' = row
      /\ born' = born /\ turn' = [t \in Sessions |-> Idle] /\ hinted' = hinted
  BY DEF CrashInAnswer, Dies
<1>2. PICK a \in Answers : a = Submitted(s, grade)
  BY <1>1, SubmittedIsAnswer
<1>3. attempts \subseteq attempts'
  BY <1>1, <1>2, RecordGrows
<1>4. hinted' \in [Sessions -> SUBSET Items]
  BY <1>1, QuizParts
<1> QED BY <1>1, <1>3, <1>4, QuizDied

LEMMA CrashKept ==
  ASSUME QuizInd, Crash
  PROVE  QuizInd'
<1>1. row' = row /\ born' = born /\ turn' = [t \in Sessions |-> Idle] /\ hinted' = hinted
      /\ attempts' = attempts
  BY DEF Crash, Dies, storeVars
<1>2. hinted' \in [Sessions -> SUBSET Items]
  BY <1>1 DEF QuizInd, QuizTypeOK
<1> QED BY <1>1, <1>2, QuizDied

LEMMA NewSessionKept ==
  ASSUME QuizInd, NEW s \in Sessions, NEW e \in Experiments, NewSession(s, e)
  PROVE  QuizInd'
<1> DEFINE new == [exp |-> e, quiz |-> None, pos |-> 0, teach |-> Fresh(NoConcept)]
<1>1. /\ s \notin born /\ born' = born \cup {s} /\ row' = [row EXCEPT ![s] = new]
      /\ turn' = turn /\ hinted' = hinted /\ attempts' = attempts
  BY DEF NewSession, storeVars
<1>2. turn[s] = Idle /\ hinted[s] = {}
  BY <1>1, QuizParts
<1>3. PICK f \in Teaching : f = Fresh(NoConcept) /\ f.level = 0
  BY FreshTyped DEF Texts
<1>10. PICK R : R = [exp |-> e, quiz |-> None, pos |-> 0, teach |-> f]
  OBVIOUS
<1>4. R \in Row /\ R = new /\ R.quiz = None /\ R.teach = f
  <2>1. e \in Experiment
    BY ExperimentAssumption
  <2>2. R \in Row
    BY <1>3, <1>10, <2>1 DEF Row
  <2> QED BY <1>3, <1>10, <2>2
<1> HIDE DEF new
<1>5. Sound(s, R)'
  <2>1. 1..R.teach.level = {}
    BY <1>3, <1>4
  <2> QED BY <1>1, <1>2, <1>4, <2>1 DEF Sound
<1>6. PICK T \in Turn, H \in SUBSET Items : T = Idle /\ H = {}
  BY <1>2, QuizParts
<1>7. turn' = [turn EXCEPT ![s] = T] /\ hinted' = [hinted EXCEPT ![s] = H]
      /\ row' = [row EXCEPT ![s] = R]
  BY <1>1, <1>2, <1>4, <1>6, QuizParts
<1>8. born' \in SUBSET Sessions /\ born \subseteq born' /\ s \in born'
  BY <1>1, QuizParts
<1>9. T.at # "taught" /\ R \in Row \cup {None}
  BY <1>4, <1>6 DEF Idle
<1> QED BY <1>1, <1>5, <1>6, <1>7, <1>8, <1>9, QuizWhole

LEMMA DeleteSessionKept ==
  ASSUME StoreInd, QuizInd, NEW s \in Sessions, DeleteSession(s)
  PROVE  QuizInd'
<1>1. /\ row[s] # None /\ turn[s] = Idle /\ DeleteSessionData(s)
      /\ row' = [row EXCEPT ![s] = None] /\ hinted' = [hinted EXCEPT ![s] = {}]
      /\ born' = born /\ turn' = turn
  BY DEF DeleteSession
<1>2. attempts' = Kept(s)
  BY <1>1, DeleteKeeps
<1>3. \A t \in Sessions \ {s} : \A a \in attempts : a.session = t => a \in attempts'
  BY <1>2 DEF Kept
<1>4. PICK R \in Row \cup {None}, T \in Turn, H \in SUBSET Items : R = None /\ T = Idle /\ H = {}
  BY <1>1, QuizParts
<1>5. turn' = [turn EXCEPT ![s] = T] /\ hinted' = [hinted EXCEPT ![s] = H]
      /\ row' = [row EXCEPT ![s] = R]
  BY <1>1, <1>4, QuizParts
<1>6. born' \in SUBSET Sessions /\ born \subseteq born' /\ s \in born'
  BY <1>1, QuizParts
<1>7. T.at # "taught"
  BY <1>4 DEF Idle
<1> QED BY <1>3, <1>4, <1>5, <1>6, <1>7, QuizWhole

LEMMA CrashInDeleteKept ==
  ASSUME StoreInd, QuizInd, NEW s \in Sessions, CrashInDelete(s)
  PROVE  QuizInd'
<1>1. /\ DeleteSessionData(s) /\ row' = row /\ born' = born
      /\ turn' = [t \in Sessions |-> Idle] /\ hinted' = [hinted EXCEPT ![s] = {}]
  BY DEF CrashInDelete, Dies
<1>2. attempts' = Kept(s) /\ hinted \in [Sessions -> SUBSET Items]
  BY <1>1, DeleteKeeps, QuizParts
<1>3. hinted' \in [Sessions -> SUBSET Items]
  BY <1>1, <1>2
<1>4. ASSUME NEW t \in Sessions, NEW i \in hinted'[t]
      PROVE  i \in hinted[t] /\ \A a \in attempts : a.session = t => a \in attempts'
  <2>1. t # s
    BY <1>1, <1>2, <1>4
  <2> QED BY <1>1, <1>2, <1>4, <2>1 DEF Kept
<1> QED BY <1>1, <1>3, <1>4, QuizDied

(* The steps of a turn.                                                      *)

LEMMA BeginTurnKept ==
  ASSUME QuizInd, NEW s \in Sessions, BeginTurn(s)
  PROVE  QuizInd'
<1>1. /\ row[s] # None /\ turn' = [turn EXCEPT ![s] = [at |-> "created", obj |-> row[s]]]
      /\ row' = row /\ born' = born /\ hinted' = hinted /\ attempts' = attempts
  BY DEF BeginTurn, storeVars
<1>2. PICK R \in Row : R = row[s] /\ Sound(s, R)
  BY <1>1, QuizParts
<1>3. Sound(s, R)'
  BY <1>1, <1>2, SoundStays
<1>4. PICK T : T = [at |-> "created", obj |-> R]
  OBVIOUS
<1>5. T \in Turn /\ T.obj = R /\ T.at # "taught"
  BY <1>4 DEF Turn
<1>6. PICK H \in SUBSET Items : H = hinted[s]
  BY QuizParts
<1>7. turn' = [turn EXCEPT ![s] = T] /\ hinted' = [hinted EXCEPT ![s] = H]
      /\ row' = [row EXCEPT ![s] = R]
  BY <1>1, <1>2, <1>4, <1>6, QuizParts
<1>8. born' \in SUBSET Sessions /\ born \subseteq born' /\ s \in born'
  BY <1>1, QuizParts
<1> QED BY <1>1, <1>3, <1>5, <1>7, <1>8, QuizWhole, NoneNotRow

LEMMA SaveOwnKept ==
  ASSUME QuizInd, NEW s \in Sessions, NEW at \in {"created", "prompted"},
         NEW next \in {"prompted", "marked"}, SaveOwn(s, at, next)
  PROVE  QuizInd'
<1>1. /\ turn[s].at = at /\ row' = [row EXCEPT ![s] = turn[s].obj]
      /\ turn' = [turn EXCEPT ![s].at = next]
      /\ born' = born /\ hinted' = hinted /\ attempts' = attempts
  BY DEF SaveOwn, storeVars
<1>2. turn[s].at # "idle" /\ turn[s].at # "taught"
  BY <1>1
<1>3. s \in born /\ turn[s] \in [at : {"created", "prompted", "marked"}, obj : Row]
  BY <1>2, TurnFields
<1>4. PICK R \in Row : R = turn[s].obj /\ Sound(s, R)
  BY <1>2, TurnFields
<1>5. Sound(s, R)'
  BY <1>1, <1>4, SoundStays
<1>6. PICK T : T = [turn[s] EXCEPT !.at = next]
  OBVIOUS
<1>7. T \in [at : {"created", "prompted", "marked"}, obj : Row] /\ T.at = next /\ T.obj = R
  BY <1>3, <1>4, <1>6
<1>8. T \in Turn /\ T.at # "taught"
  BY <1>7 DEF Turn
<1>9. PICK H \in SUBSET Items : H = hinted[s]
  BY QuizParts
<1>10. turn' = [turn EXCEPT ![s] = T] /\ hinted' = [hinted EXCEPT ![s] = H]
       /\ row' = [row EXCEPT ![s] = R]
  BY <1>1, <1>4, <1>6, <1>9, QuizParts
<1>11. born' \in SUBSET Sessions /\ born \subseteq born' /\ s \in born'
  BY <1>1, <1>3, QuizParts
<1> QED BY <1>1, <1>5, <1>7, <1>8, <1>10, <1>11, QuizWhole, NoneNotRow

\* A turn that has been taught, and what it saved on the way.
LEMMA TaughtKept ==
  ASSUME QuizInd, NEW s \in Sessions, turn[s].at # "idle",
         NEW out \in Outcome, OneStep(turn[s].obj, out),
         turn' = [turn EXCEPT ![s] = [at |-> "taught", obj |-> turn[s].obj, out |-> out]],
         NEW R \in Row, row' = [row EXCEPT ![s] = R], R # None, Sound(s, R),
         born' = born, hinted' = hinted, attempts' = attempts
  PROVE  QuizInd'
<1>1. PICK r \in Row : r = turn[s].obj /\ Sound(s, r) /\ s \in born
  BY TurnFields
<1>2. Sound(s, r)' /\ Sound(s, R)'
  BY <1>1, SoundStays
<1>3. PICK T : T = [at |-> "taught", obj |-> r, out |-> out]
  OBVIOUS
<1>4. T \in Turn /\ T.obj = r /\ T.out = out
  BY <1>3 DEF Turn
<1>5. PICK H \in SUBSET Items : H = hinted[s]
  BY QuizParts
<1>6. turn' = [turn EXCEPT ![s] = T] /\ hinted' = [hinted EXCEPT ![s] = H]
  BY <1>1, <1>3, <1>5, QuizParts
<1>7. born' \in SUBSET Sessions /\ born \subseteq born' /\ s \in born'
  BY <1>1, QuizParts
<1>8. OneStep(T.obj, T.out)
  BY <1>1, <1>4
<1> QED BY <1>2, <1>4, <1>6, <1>7, <1>8, QuizWhole

LEMMA SkipTeachingKept ==
  ASSUME QuizInd, NEW s \in Sessions, NEW action \in {"failed", "chat"}, SkipTeaching(s, action)
  PROVE  QuizInd'
<1> DEFINE r == turn[s].obj
           o == [action |-> action, level |-> r.teach.level, turns |-> r.teach.turns,
                 concept |-> r.teach.concept]
<1>1. /\ turn[s].at \in {"created", "prompted", "marked"}
      /\ turn' = [turn EXCEPT ![s] = [at |-> "taught", obj |-> turn[s].obj, out |-> o]]
      /\ row' = row /\ born' = born /\ hinted' = hinted /\ attempts' = attempts
  BY DEF SkipTeaching, storeVars
<1>2. turn[s].at # "idle"
  BY <1>1
<1>3. r \in Row
  BY <1>2, TurnFields
<1>4. r.teach \in Teaching
  BY <1>3, RowFields
<1>5. PICK out : out = o
  OBVIOUS
<1>6. PICK l \in 0..HintMaxLevel, u \in 0..MaxTurns, c \in Texts :
        l = r.teach.level /\ u = r.teach.turns /\ c = r.teach.concept
  BY <1>4, TeachingFields
<1>7. out = [action |-> action, level |-> l, turns |-> u, concept |-> c]
  BY <1>5, <1>6
<1> HIDE DEF o, r
<1>8. out \in Outcome /\ out.action = action
  BY <1>7 DEF Outcome, Texts
<1>9. OneStep(turn[s].obj, out)
  BY <1>8 DEF OneStep
<1>10. PICK R \in Row : R = row[s] /\ R # None /\ Sound(s, R)
  BY <1>2, QuizParts, TurnFields
<1>11. row' = [row EXCEPT ![s] = R]
  BY <1>1, <1>10, QuizParts
<1> QED BY <1>1, <1>2, <1>5, <1>8, <1>9, <1>10, <1>11, TaughtKept

LEMMA PriorTyped ==
  ASSUME NEW r \in Row, NEW c \in Texts
  PROVE  Prior(r, c) \in Teaching /\ Prior(r, c).concept = c
BY RowFields, FreshTyped DEF Prior

\* A sound object stays sound where the teaching state of the concept is read.
LEMMA PriorSound ==
  ASSUME NEW s, NEW r \in Row, Sound(s, r), NEW c \in Texts
  PROVE  1..Prior(r, c).level \subseteq Prior(r, c).shown
<1>1. CASE r.teach.concept = c
  BY <1>1 DEF Prior, Sound
<1>2. CASE r.teach.concept # c
  <2>1. Prior(r, c).level = 0
    BY <1>2, FreshTyped DEF Prior
  <2> QED BY <2>1
<1> QED BY <1>1, <1>2

LEMMA BandTyped ==
  ASSUME NEW r, NEW c
  PROVE  Band(r, c) \in Bands
BY DEF Band, Bands

\* The teaching graph decides one step from the state it was asked with.
LEMMA TeachKept ==
  ASSUME QuizInd, NEW s \in Sessions, NEW w \in Words, NEW said \in Texts, Teach(s, w, said)
  PROVE  QuizInd'
<1>1. PICK r \in Row : r = turn[s].obj /\ Sound(s, r) /\ turn[s].at # "idle"
  BY TurnFields DEF Teach
<1>2. PICK c \in Texts : c = ConceptOf(r, said)
  <2>1. r.quiz # None => r.quiz.concept \in Texts
    BY RowFields, QuizFields
  <2> QED BY <2>1 DEF ConceptOf
<1>3. PICK p \in Teaching : p = Prior(r, c) /\ 1..p.level \subseteq p.shown
  BY <1>1, PriorTyped, PriorSound
<1>4. PICK st, did : st = StateOf(r, c, w) /\ did = TeachingTurn(st)
  OBVIOUS
<1>5. /\ ~st.stopped /\ st.level = p.level /\ st.misconceptions = p.misconceptions
      /\ st.streak = p.streak /\ st.turns = p.turns /\ st.band = Band(r, c)
  BY <1>3, <1>4 DEF StateOf
<1>6. /\ did.action \in Actions /\ did.level \in 0..HintMaxLevel /\ did.turns \in 0..MaxTurns
      /\ did.action = "hint" => did.level \in 1..(p.level + 1)
      /\ did.action = "correct" => did.level = 0 /\ p.level >= HintMaxLevel
      /\ did.action \notin {"hint", "correct"} => did.level = p.level
  BY <1>3, <1>4, <1>5, TeachingFields, BandTyped, TurnTaken, MisconceptionAssumption
<1>7. PICK action \in Actions, level \in 0..HintMaxLevel, turns \in 0..MaxTurns :
        action = did.action /\ level = did.level /\ turns = did.turns
  BY <1>6
<1>8. PICK out : out = [action |-> action, level |-> level, turns |-> turns, concept |-> c]
  OBVIOUS
<1>9. /\ out \in Outcome /\ out.action = action /\ out.level = level /\ out.concept = c
  BY <1>8 DEF Outcome, Texts
<1>10. OneStep(r, out)
  <2>1. (r.quiz # None /\ r.quiz.concept # NoConcept) => c = r.quiz.concept
    BY <1>2 DEF ConceptOf
  <2>2. ASSUME action = "correct" PROVE level = 0 /\ p.shown = 1..HintMaxLevel
    <3>1. level = 0 /\ p.level = HintMaxLevel
      BY <1>6, <1>7, <2>2, TeachingFields, LimitAssumption
    <3>2. p.shown \in SUBSET (1..HintMaxLevel)
      BY TeachingFields
    <3> QED BY <1>3, <3>1, <3>2
  <2>3. /\ action = "hint" => level \in 1..(p.level + 1)
        /\ action \notin {"hint", "correct"} => level = p.level
    BY <1>6, <1>7
  <2>4. action \notin {"failed", "chat"}
    BY DEF Actions
  <2> QED BY <1>3, <1>9, <2>1, <2>2, <2>3 DEF OneStep
<1>11. /\ turn' = [turn EXCEPT ![s] = [at |-> "taught", obj |-> turn[s].obj, out |-> out]]
       /\ born' = born /\ hinted' = hinted /\ attempts' = attempts
  BY <1>1, <1>2, <1>4, <1>7, <1>8 DEF Teach, storeVars
<1>12. \E R \in Row : row' = [row EXCEPT ![s] = R] /\ R # None /\ Sound(s, R)
  <2>1. PICK cur \in Row : cur = row[s] /\ Sound(s, cur)
    BY <1>1, QuizParts, TurnFields
  <2>2. CASE row' = row
    <3>1. row' = [row EXCEPT ![s] = cur]
      BY <2>1, <2>2, QuizParts
    <3> QED BY <2>1, <3>1, NoneNotRow
  <2>3. CASE row' # row
    <3>1. PICK d : row' = [row EXCEPT ![s] = Issue(row[s], c, d)]
      <4>1. row' = [row EXCEPT ![s] =
                      Issue(row[s], c, IF c = NoConcept THEN 0 ELSE Difficulty(r, c))]
        BY <1>1, <1>2, <2>3, QuizParts DEF Teach
      <4> QED BY <4>1
    <3>2. PICK R \in Row : R = Issue(cur, c, d) /\ Sound(s, R)
      BY <2>1, IssueSound
    <3> QED BY <2>1, <3>1, <3>2, NoneNotRow
  <2> QED BY <2>2, <2>3
<1> QED BY <1>1, <1>9, <1>10, <1>11, <1>12, TaughtKept

\* The object at the end of a turn.
LEMMA TaughtSound ==
  ASSUME NEW s, NEW r \in Row, Sound(s, r), NEW out \in Outcome, OneStep(r, out)
  PROVE  LET R == Taught(r, out)
         IN  /\ R \in Row
             /\ (R.quiz # None /\ R.quiz.concept # NoConcept) =>
                  /\ R.teach.concept = R.quiz.concept
                  /\ R.teach.attempts = R.quiz.attempts
                  /\ R.teach.streak = R.quiz.streak
             /\ 1..R.teach.level \subseteq R.teach.shown
             /\ \A i \in hinted[s] \cup HintedAt(r, out) :
                  \/ \E a \in attempts : a.session = s /\ a.item = i
                  \/ R.quiz # None /\ R.quiz.item = i /\ R.quiz.hints > 0
<1>1. CASE out.action \in {"failed", "chat"}
  <2>1. Taught(r, out) = r /\ HintedAt(r, out) = {}
    BY <1>1 DEF Taught, HintedAt
  <2> QED BY <2>1 DEF Sound
<1>2. CASE out.action \notin {"failed", "chat"}
  <2>1. PICK c \in Texts, level \in 0..HintMaxLevel, turns \in 0..MaxTurns :
          c = out.concept /\ level = out.level /\ turns = out.turns
    BY DEF Outcome, Texts
  <2>2. PICK p \in Teaching : p = Prior(r, c) /\ 1..p.level \subseteq p.shown
    BY PriorTyped, PriorSound
  <2>3. /\ (r.quiz # None /\ r.quiz.concept # NoConcept) => c = r.quiz.concept
        /\ out.action = "hint" => level \in 1..(p.level + 1)
        /\ out.action = "correct" => level = 0
        /\ out.action \notin {"hint", "correct"} => level = p.level
    BY <1>2, <2>1, <2>2 DEF OneStep
  <2>4. p.shown \in SUBSET (1..HintMaxLevel) /\ p.level \in Nat
    BY TeachingFields
  <2>5. PICK shown \in SUBSET (1..HintMaxLevel) :
          shown = ShownAfter(p, out) /\ 1..level \subseteq shown
    <3>1. CASE out.action = "hint"
      <4>1. ShownAfter(p, out) = p.shown \cup {level}
        BY <2>1, <3>1 DEF ShownAfter
      <4>2. level \in 1..HintMaxLevel /\ level \in Nat
        BY <2>3, <3>1
      <4>3. ASSUME NEW l \in 1..level PROVE l \in p.shown \cup {level}
        <5>1. l = level \/ l \in 1..p.level
          BY <2>3, <2>4, <3>1, <4>2
        <5> QED BY <2>2, <5>1
      <4> QED BY <2>4, <4>1, <4>2, <4>3
    <3>2. CASE out.action = "correct"
      <4>1. ShownAfter(p, out) = {} /\ 1..level = {}
        BY <2>3, <3>2 DEF ShownAfter
      <4> QED BY <4>1
    <3>3. CASE out.action \notin {"hint", "correct"}
      <4>1. ShownAfter(p, out) = p.shown
        BY <3>3 DEF ShownAfter
      <4> QED BY <2>2, <2>3, <2>4, <3>3, <4>1
    <3> QED BY <3>1, <3>2, <3>3
  <2>6. PICK t : t = [p EXCEPT !.level = level, !.turns = turns, !.shown = shown]
    OBVIOUS
  <2>7. /\ t \in Teaching /\ t.concept = p.concept /\ t.attempts = p.attempts
        /\ t.streak = p.streak /\ t.level = level /\ t.shown = shown
    BY <2>6 DEF Teaching
  <2>8. PICK z : z = IF out.action = "hint" /\ r.quiz # None
                       THEN [r.quiz EXCEPT !.hints = r.quiz.hints + 1] ELSE r.quiz
    OBVIOUS
  <2>9. /\ z \in Quiz \cup {None}
        /\ r.quiz = None => z = None
        /\ r.quiz # None =>
             /\ z \in Quiz /\ z.item = r.quiz.item /\ z.concept = r.quiz.concept
             /\ z.attempts = r.quiz.attempts /\ z.streak = r.quiz.streak
             /\ r.quiz.hints \in Nat
             /\ z.hints = IF out.action = "hint" THEN r.quiz.hints + 1 ELSE r.quiz.hints
    <3>1. CASE r.quiz = None
      BY <2>8, <3>1
    <3>2. CASE r.quiz # None
      <4>1. PICK q \in Quiz : q = r.quiz /\ q.hints \in Nat
        BY <3>2, RowFields, QuizFields
      <4>2. PICK y : y = [q EXCEPT !.hints = q.hints + 1]
        OBVIOUS
      <4>3. /\ y \in Quiz /\ y.item = q.item /\ y.concept = q.concept
            /\ y.attempts = q.attempts /\ y.streak = q.streak /\ y.hints = q.hints + 1
        BY <4>1, <4>2 DEF Quiz
      <4>4. z = IF out.action = "hint" THEN y ELSE q
        BY <2>8, <3>2, <4>1, <4>2
      <4> QED BY <3>2, <4>1, <4>3, <4>4
    <3> QED BY <3>1, <3>2
  <2>10. PICK R : R = [r EXCEPT !.quiz = z, !.teach = t]
    OBVIOUS
  <2>11. R \in Row /\ R.quiz = z /\ R.teach = t
    BY <2>7, <2>9, <2>10 DEF Row
  <2>12. Taught(r, out) = R
    <3> DEFINE Z == IF out.action = "hint" /\ r.quiz # None
                      THEN [r.quiz EXCEPT !.hints = r.quiz.hints + 1] ELSE r.quiz
               U == [Prior(r, out.concept) EXCEPT !.level = out.level, !.turns = out.turns,
                        !.shown = ShownAfter(Prior(r, out.concept), out)]
    <3>1. Taught(r, out) = [r EXCEPT !.quiz = Z, !.teach = U]
      BY <1>2 DEF Taught
    <3>2. Z = z
      BY <2>8
    <3>3. U = t
      BY <2>1, <2>2, <2>5, <2>6
    <3> HIDE DEF Z, U
    <3> QED BY <2>10, <3>1, <3>2, <3>3
  <2>13. ASSUME R.quiz # None, R.quiz.concept # NoConcept
         PROVE  /\ R.teach.concept = R.quiz.concept
                /\ R.teach.attempts = R.quiz.attempts
                /\ R.teach.streak = R.quiz.streak
    <3>1. r.quiz # None
      BY <2>9, <2>11, <2>13
    <3>2. r.quiz.concept # NoConcept /\ c = r.quiz.concept
      BY <2>3, <2>9, <2>11, <2>13, <3>1
    <3>3. /\ r.teach.concept = r.quiz.concept /\ r.teach.attempts = r.quiz.attempts
          /\ r.teach.streak = r.quiz.streak
      BY <3>1, <3>2 DEF Sound
    <3>4. p = r.teach
      BY <2>2, <3>2, <3>3 DEF Prior
    <3> QED BY <2>7, <2>9, <2>11, <3>1, <3>3, <3>4
  <2>14. ASSUME NEW i \in hinted[s] \cup HintedAt(r, out)
         PROVE  \/ \E a \in attempts : a.session = s /\ a.item = i
                \/ R.quiz # None /\ R.quiz.item = i /\ R.quiz.hints > 0
    <3>1. ASSUME r.quiz # None, r.quiz = None \/ z # None, r.quiz.item = i,
                 r.quiz.hints > 0 \/ out.action = "hint"
          PROVE  R.quiz # None /\ R.quiz.item = i /\ R.quiz.hints > 0
      <4>1. z.hints > 0
        BY <2>9, <3>1
      <4> QED BY <2>9, <2>11, <3>1, <4>1
    <3>2. r.quiz # None => z # None
      BY <2>9, NoneNotRow
    <3>3. CASE i \in hinted[s]
      BY <3>1, <3>2, <3>3 DEF Sound
    <3>4. CASE i \in HintedAt(r, out)
      BY <3>1, <3>2, <3>4 DEF HintedAt
    <3> QED BY <3>3, <3>4
  <2> QED BY <2>5, <2>7, <2>11, <2>12, <2>13, <2>14
<1> QED BY <1>1, <1>2

\* The end of a turn writes its own object over the row.
LEMMA EndTurnKept ==
  ASSUME QuizInd, NEW s \in Sessions, EndTurn(s)
  PROVE  QuizInd'
<1>1. /\ turn[s].at = "taught" /\ row' = [row EXCEPT ![s] = Taught(turn[s].obj, turn[s].out)]
      /\ turn' = [turn EXCEPT ![s] = Idle]
      /\ hinted' = [hinted EXCEPT ![s] = hinted[s] \cup HintedAt(turn[s].obj, turn[s].out)]
      /\ born' = born /\ attempts' = attempts
  BY QuizParts DEF EndTurn, storeVars
<1>2. turn[s].at # "idle"
  BY <1>1
<1>3. PICK r \in Row, out \in Outcome :
        r = turn[s].obj /\ out = turn[s].out /\ Sound(s, r) /\ OneStep(r, out) /\ s \in born
  BY <1>1, <1>2, TurnFields
<1>4. PICK R : R = Taught(r, out)
  OBVIOUS
<1>5. PICK H : H = hinted[s] \cup HintedAt(r, out)
  OBVIOUS
<1>6. /\ R \in Row
      /\ (R.quiz # None /\ R.quiz.concept # NoConcept) =>
           /\ R.teach.concept = R.quiz.concept
           /\ R.teach.attempts = R.quiz.attempts
           /\ R.teach.streak = R.quiz.streak
      /\ 1..R.teach.level \subseteq R.teach.shown
      /\ \A i \in H :
           \/ \E a \in attempts : a.session = s /\ a.item = i
           \/ R.quiz # None /\ R.quiz.item = i /\ R.quiz.hints > 0
  BY <1>3, <1>4, <1>5, TaughtSound
<1>7. hinted'[s] = H /\ H \in SUBSET Items
  <2>1. r.quiz # None => r.quiz.item \in Items
    BY RowFields, QuizFields, QuestionFound, BankQuestion DEF BankItems
  <2>2. HintedAt(r, out) \in SUBSET Items
    BY <2>1 DEF HintedAt
  <2> QED BY <1>1, <1>3, <1>5, <2>2, QuizParts
<1>8. Sound(s, R)'
  BY <1>1, <1>6, <1>7 DEF Sound
<1>9. PICK T : T = Idle
  OBVIOUS
<1>10. T \in Turn /\ T.at # "taught" /\ R \in Row \cup {None} /\ H \in SUBSET Items
  BY <1>6, <1>7, <1>9 DEF Turn, Idle
<1>11. turn' = [turn EXCEPT ![s] = T] /\ hinted' = [hinted EXCEPT ![s] = H]
       /\ row' = [row EXCEPT ![s] = R]
  BY <1>1, <1>3, <1>4, <1>5, <1>9
<1>12. born' \in SUBSET Sessions /\ born \subseteq born' /\ s \in born'
  BY <1>1, <1>3, QuizParts
<1>13. \A t \in Sessions \ {s} : \A a \in attempts : a.session = t => a \in attempts'
  BY <1>1
<1> QED BY <1>8, <1>9, <1>10, <1>11, <1>12, <1>13, QuizWhole

LEMMA QuizStarts ==
  ASSUME QuizInit
  PROVE  QuizInd
<1>1. Idle \in Turn /\ Idle.at = "idle"
  BY DEF Idle, Turn
<1>2. \A s \in Sessions : row[s] = None /\ turn[s] = Idle /\ hinted[s] = {}
  BY DEF QuizInit
<1>3. QuizTypeOK
  BY <1>1 DEF QuizInit, QuizTypeOK
<1> QED BY <1>1, <1>2, <1>3 DEF QuizInd

(* Both scenes together.                                                     *)

StoreSteps ==
  \/ \E a \in Answers : RecordAttempt(a)
  \/ \E s \in Sessions : DeleteSessionData(s)
  \/ UNCHANGED storeVars

LEMMA StoreStepKept ==
  ASSUME StoreInd, StoreSteps
  PROVE  StoreInd'
BY RecordKeeps, DeleteKeeps, StoreRests DEF StoreSteps

LEMMA QuizzingKept ==
  ASSUME StoreInd, QuizInd, NEW s \in Sessions, Quizzing(s)
  PROVE  QuizInd' /\ StoreSteps
<1>1. ASSUME NEW c \in Concepts \cup {NoConcept}, NEW d \in 0..3, GenerateQuiz(s, c, d)
      PROVE  QuizInd' /\ StoreSteps
  <2>1. UNCHANGED storeVars
    BY <1>1 DEF GenerateQuiz
  <2> QED BY <1>1, <2>1, GenerateQuizKept DEF StoreSteps
<1>2. ASSUME NEW g \in {"right", "wrong", "none"}, AnswerQuiz(s, g) \/ CrashInAnswer(s, g)
      PROVE  QuizInd' /\ StoreSteps
  <2>1. MayAnswer(s, g) /\ RecordAttempt(Submitted(s, g))
    BY <1>2 DEF AnswerQuiz, CrashInAnswer
  <2>2. Submitted(s, g) \in Answers
    BY <2>1, SubmittedIsAnswer
  <2>3. StoreSteps
    BY <2>1, <2>2 DEF StoreSteps
  <2> QED BY <1>2, <2>3, AnswerQuizKept, CrashInAnswerKept
<1> QED BY <1>1, <1>2 DEF Quizzing

LEMMA TurningKept ==
  ASSUME StoreInd, QuizInd, NEW s \in Sessions, Turning(s)
  PROVE  QuizInd' /\ StoreSteps
<1>1. CASE BeginTurn(s)
  BY <1>1, BeginTurnKept DEF BeginTurn, StoreSteps
<1>2. CASE SavePrompt(s) \/ SaveMark(s)
  BY <1>2, SaveOwnKept DEF SavePrompt, SaveMark, SaveOwn, StoreSteps
<1>3. CASE EndTurn(s)
  BY <1>3, EndTurnKept DEF EndTurn, StoreSteps
<1>4. ASSUME NEW w \in Words, NEW c \in Concepts \cup {NoConcept}, Teach(s, w, c)
      PROVE  QuizInd' /\ StoreSteps
  <2>1. UNCHANGED storeVars
    BY <1>4 DEF Teach
  <2> QED BY <1>4, <2>1, TeachKept DEF StoreSteps, Texts
<1>5. ASSUME NEW a \in {"failed", "chat"}, SkipTeaching(s, a)
      PROVE  QuizInd' /\ StoreSteps
  <2>1. UNCHANGED storeVars
    BY <1>5 DEF SkipTeaching
  <2> QED BY <1>5, <2>1, SkipTeachingKept DEF StoreSteps
<1> QED BY <1>1, <1>2, <1>3, <1>4, <1>5 DEF Turning

LEMMA ManagingKept ==
  ASSUME StoreInd, QuizInd, NEW s \in Sessions, Managing(s)
  PROVE  QuizInd' /\ StoreSteps
<1>1. ASSUME NEW e \in Experiments, NewSession(s, e)
      PROVE  QuizInd' /\ StoreSteps
  BY <1>1, NewSessionKept DEF NewSession, StoreSteps
<1>2. CASE DeleteSession(s)
  BY <1>2, DeleteSessionKept DEF DeleteSession, StoreSteps
<1>3. CASE CrashInDelete(s)
  BY <1>3, CrashInDeleteKept DEF CrashInDelete, StoreSteps
<1> QED BY <1>1, <1>2, <1>3 DEF Managing

LEMMA QuizStep ==
  ASSUME StoreInd, QuizInd, QuizNext
  PROVE  StoreInd' /\ QuizInd' /\ StoreSteps
<1>1. CASE Crash
  <2>1. StoreSteps
    BY <1>1 DEF Crash, StoreSteps
  <2> QED BY <1>1, <2>1, CrashKept, StoreStepKept
<1>2. CASE \E s \in Sessions : Quizzing(s) \/ Turning(s) \/ Managing(s)
  <2>1. QuizInd' /\ StoreSteps
    BY <1>2, QuizzingKept, TurningKept, ManagingKept
  <2> QED BY <2>1, StoreStepKept
<1> QED BY <1>1, <1>2 DEF QuizNext

NoQuiz == \A s \in Sessions : row[s] = None /\ turn[s] = Idle /\ hinted[s] = {}

\* In the audit's scenes no quiz runs.
LEMMA QuizAsleep ==
  ASSUME QuizInd, NoQuiz, UNCHANGED quizVars
  PROVE  QuizInd' /\ NoQuiz'
<1>1. row' = row /\ born' = born /\ turn' = turn /\ hinted' = hinted
  BY DEF quizVars
<1>2. NoQuiz'
  BY <1>1 DEF NoQuiz, Idle
<1>3. QuizTypeOK'
  BY <1>1 DEF QuizInd, QuizTypeOK
<1>4. Idle.at # "taught" /\ Idle' = Idle
  BY DEF Idle
<1>5. ASSUME NEW s \in Sessions
      PROVE  row'[s] = None /\ turn'[s] = Idle /\ hinted'[s] = {} /\ turn'[s].at # "taught"
  BY <1>1, <1>4 DEF NoQuiz
<1> QED BY <1>2, <1>3, <1>4, <1>5 DEF QuizInd

\* The inductive invariant holds at the start.
LEMMA StudyStarts == Init => StudyInd
<1> SUFFICES ASSUME Init PROVE StudyInd
  OBVIOUS
<1>1. scene \in Scenes /\ StoreInit /\ QuizInit /\ AuditInit
  BY DEF Init
<1>2. StoreInd /\ QuizInd /\ AuditInd
  BY <1>1, StoreStarts, QuizStarts, AuditStarts
<1>3. \A s \in Sessions : row[s] = None /\ turn[s] = Idle /\ hinted[s] = {}
  BY <1>1 DEF QuizInit
<1> QED BY <1>1, <1>2, <1>3 DEF StudyInd

\* Every step of either scene keeps it.
LEMMA StudyStep == StudyInd /\ [Next]_vars => StudyInd'
<1> SUFFICES ASSUME StudyInd, [Next]_vars PROVE StudyInd'
  OBVIOUS
<1>1. scene \in Scenes /\ StoreInd /\ QuizInd /\ AuditInd /\ (scene # "quiz" => NoQuiz)
  BY DEF StudyInd, NoQuiz
<1>2. CASE scene = "quiz" /\ QuizNext /\ UNCHANGED auditVars /\ scene' = scene
  <2>1. StoreInd' /\ QuizInd' /\ StoreSteps
    BY <1>1, <1>2, QuizStep
  <2>2. AuditInd'
    BY <1>1, <1>2, <2>1, AuditApart DEF StoreSteps
  <2> QED BY <1>1, <1>2, <2>1, <2>2 DEF StudyInd
<1>3. CASE scene = "audit" /\ AuditNext /\ UNCHANGED quizVars /\ scene' = scene
  <2>1. StoreInd' /\ AuditInd'
    BY <1>1, <1>3, AuditStep
  <2>2. QuizInd' /\ NoQuiz'
    BY <1>1, <1>3, QuizAsleep
  <2> QED BY <1>1, <1>3, <2>1, <2>2 DEF StudyInd, NoQuiz
<1>4. CASE UNCHANGED vars
  <2>1. UNCHANGED storeVars /\ UNCHANGED quizVars /\ UNCHANGED auditVars /\ scene' = scene
    BY <1>4 DEF vars
  <2>2. StoreInd' /\ AuditInd'
    BY <1>1, <2>1, StoreRests, AuditApart
  <2>3. QuizInd'
    BY <1>1, <2>1 DEF quizVars, storeVars, QuizInd, QuizTypeOK, Sound, OneStep, Prior, Fresh, Idle
  <2>4. scene' # "quiz" => NoQuiz'
    BY <1>1, <2>1 DEF quizVars, NoQuiz, Idle
  <2> QED BY <1>1, <2>1, <2>2, <2>3, <2>4 DEF StudyInd, NoQuiz
<1> QED BY <1>2, <1>3, <1>4 DEF Next

\* The store, the quiz and the audits keep their invariants in every reachable
\* state, wherever the process dies.
THEOREM StudyInvariant == Spec => []StudyInd
BY StudyStarts, StudyStep, PTL DEF Spec

\* Every variable of the study sessions keeps its type, for any bank, sessions,
\* experiments and readers.
THEOREM StudyTypes == Spec => []TypeOK
<1>1. StudyInd => TypeOK
  BY DEF StudyInd, TypeOK, StoreInd, QuizInd, AuditInd
<1> QED BY <1>1, StudyInvariant, PTL

\* At most one attempt at a question is ever evidence, whichever sessions answer
\* it and whichever are deleted (record_attempt and _skip_reason).
THEOREM EvidenceIsOnce == Spec => []EvidenceOnce
<1>1. StudyInd => EvidenceOnce
  BY DEF StudyInd, StoreInd
<1> QED BY <1>1, StudyInvariant, PTL

\* Every estimate is folded from the eligible attempts of its concept that are
\* left, each once and in order, and its observations say so, also after sessions
\* were deleted and their concepts replayed (record_attempt, delete_session_data).
THEOREM EstimatesAreFolds == Spec => []EstimateIsFold
<1>1. StudyInd => EstimateIsFold
  BY DEF StudyInd, StoreInd
<1> QED BY <1>1, StudyInvariant, PTL

\* The audit event of an attempt is in its session's log, once, or its outbox row
\* is still to be delivered, however many requests flush at once and wherever the
\* process dies (flush_events, mark_event_delivered).
THEOREM AuditsNotLost == Spec => []AuditNotLost
<1>1. StudyInd => AuditNotLost
  BY DEF StudyInd, AuditInd
<1> QED BY <1>1, StudyInvariant, PTL

\* The active question and the teaching state are of one concept and count the
\* same answers, although turns save both from copies of their own (_run_turn,
\* QuizService.answer).
THEOREM QuizCountsAgree == Spec => []CountsAgree
<1>1. StudyInd => CountsAgree
  BY DEF StudyInd, QuizInd, Sound, CountsAgree
<1> QED BY <1>1, StudyInvariant, PTL

\* Hint levels climb one at a time, and the answer is given away only after every
\* level was shown (decide_action, next_hint_level and the copies turns save).
THEOREM HintsClimb == Spec => []LadderInOrder
<1>1. ASSUME StudyInd PROVE LadderInOrder
  <2>1. QuizInd
    BY <1>1 DEF StudyInd
  <2>2. \A s \in Sessions : row[s] # None => 1..row[s].teach.level \subseteq row[s].teach.shown
    BY <2>1 DEF QuizInd, Sound
  <2>3. ASSUME NEW s \in Sessions, turn[s].at = "taught", turn[s].out.action = "correct"
        PROVE  Prior(turn[s].obj, turn[s].out.concept).shown = 1..HintMaxLevel
    <3>1. OneStep(turn[s].obj, turn[s].out)
      BY <2>1, <2>3 DEF QuizInd
    <3> QED BY <2>3, <3>1 DEF OneStep
  <2> QED BY <2>2, <2>3 DEF LadderInOrder
<1> QED BY <1>1, StudyInvariant, PTL

HintStep ==
  made' > made =>
    \A a \in attempts' : a.id = made' /\ a.eligible => a.item \notin hinted[a.session]

\* The attempt a step records is of a question no ended turn hinted at.
LEMMA NewAttemptUnhinted ==
  ASSUME StoreInd, QuizInd, NEW s \in Sessions, NEW g, MayAnswer(s, g),
         RecordAttempt(Submitted(s, g)),
         NEW a \in attempts', a.id = made', a.eligible
  PROVE  a.item \notin hinted[a.session]
<1>1. PICK r \in Row : r = row[s] /\ Sound(s, r) /\ r.quiz # None
  BY QuizParts DEF MayAnswer
<1>2. PICK n \in Answers : n = Submitted(s, g) /\ n.session = s /\ n.item = r.quiz.item
                             /\ n.hints = r.quiz.hints
  BY <1>1, SubmittedIsAnswer
<1>3. made' = made + 1 /\ attempts' = attempts \cup {Recorded(n)} /\ made \in Nat
  BY <1>2, RecordEquations DEF StoreInd, StoreTypeOK
<1>4. a \notin attempts
  BY <1>3, AttemptFields
<1>5. a = Recorded(n)
  BY <1>3, <1>4
<1>6. a.session = s /\ a.item = n.item /\ Eligible(n)
  BY <1>2, <1>5, RecordedFields
<1>7. n.hints = 0 /\ ~\E b \in attempts : b.item = n.item
  BY <1>6 DEF Eligible, Repeated
<1> QED BY <1>1, <1>2, <1>6, <1>7 DEF Sound

\* No step records as evidence an answer to a question that a turn which ended in
\* its session had hinted at, whatever stale copies the turns saved over the hint
\* count (_run_turn, QuizService.answer).
THEOREM HintsExcludeEvidence == Spec => HintedNotEvidence
<1>1. ASSUME StudyInd, StudyInd', [Next]_vars
      PROVE  [HintStep]_<<quizVars, storeVars>>
  <2>1. StoreInd /\ QuizInd /\ (scene # "quiz" => NoQuiz) /\ StoreInd' /\ made \in Nat
    BY <1>1 DEF StudyInd, NoQuiz, StoreInd, StoreTypeOK
  <2>2. CASE UNCHANGED vars
    BY <2>2 DEF vars
  <2>3. CASE scene # "quiz"
    <3>1. \A a \in attempts' : a.session \in Sessions
      BY <2>1 DEF StoreInd, StoreTypeOK, Attempts
    <3> QED BY <2>1, <2>3, <3>1 DEF HintStep, NoQuiz
  <2>4. CASE QuizNext
    <3>1. ASSUME NEW a \in attempts', made' > made, a.id = made', a.eligible
          PROVE  a.item \notin hinted[a.session]
      <4>1. made' # made
        BY <2>1, <3>1
      <4>2. PICK s \in Sessions, g \in {"right", "wrong", "none"} :
              AnswerQuiz(s, g) \/ CrashInAnswer(s, g)
        <5>1. ~Crash
          BY <4>1 DEF Crash, storeVars
        <5>2. PICK s \in Sessions : Quizzing(s) \/ Turning(s) \/ Managing(s)
          BY <2>4, <5>1 DEF QuizNext
        <5>3. ~Turning(s)
          BY <4>1 DEF Turning, BeginTurn, SavePrompt, SaveMark, SaveOwn, EndTurn, Teach,
                      SkipTeaching, storeVars
        <5>4. ~Managing(s)
          BY <4>1 DEF Managing, NewSession, DeleteSession, CrashInDelete, DeleteSessionData, storeVars
        <5>5. \A c, d : ~GenerateQuiz(s, c, d)
          BY <4>1 DEF GenerateQuiz, storeVars
        <5> QED BY <5>2, <5>3, <5>4, <5>5 DEF Quizzing
      <4>3. MayAnswer(s, g) /\ RecordAttempt(Submitted(s, g))
        BY <4>2 DEF AnswerQuiz, CrashInAnswer
      <4> QED BY <2>1, <3>1, <4>3, NewAttemptUnhinted
    <3> QED BY <3>1 DEF HintStep
  <2>5. UNCHANGED vars \/ scene # "quiz" \/ QuizNext
    BY <1>1 DEF Next
  <2> QED BY <2>2, <2>3, <2>4, <2>5
<1> QED BY <1>1, StudyInvariant, PTL DEF Spec, HintedNotEvidence, HintStep
=============================================================================
