------------------------ MODULE EvidenceRuns_proofs -------------------------
(* Proofs about EvidenceRuns, for all learners, passages, queries, turns and  *)
(* searches, and for any number of threads that import.                       *)
EXTENDS EvidenceRuns, FiniteSetTheorems, SequenceTheorems, WellFoundedInduction, TLAPS

(* A nonempty set of numbers has a least one, and a bounded one a largest.   *)

LEMMA LeastOf ==
  ASSUME NEW S \in SUBSET Nat, S # {}
  PROVE  \E m \in S : \A n \in S : m <= n
<1> DEFINE Less == OpToRel(<, Nat)
<1>1. IsWellFoundedOn(Less, Nat)
  BY NatLessThanWellFounded
<1>2. ASSUME NEW m \in Nat, NEW n \in Nat, n < m PROVE <<n, m>> \in Less
  BY <1>2 DEF OpToRel
<1> HIDE DEF Less
<1>3. PICK m \in S : \A n \in S : ~ (<<n, m>> \in Less)
  BY <1>1, WFMin
<1>4. ASSUME NEW n \in S PROVE m <= n
  <2>1. m \in Nat /\ n \in Nat
    OBVIOUS
  <2>2. ~ (n < m)
    BY <1>2, <1>3, <2>1
  <2> QED BY <2>1, <2>2
<1> QED BY <1>4

LEMMA MaxOf ==
  ASSUME NEW N \in Nat, NEW S \in SUBSET (1..N), S # {}
  PROVE  Max(S) \in S /\ \A y \in S : Max(S) >= y
<1> DEFINE gaps == {N - x : x \in S}
<1>0. \A x \in S : x \in Nat /\ N - x \in Nat
  OBVIOUS
<1>1. gaps \in SUBSET Nat /\ gaps # {}
  BY <1>0
<1>2. PICK m \in gaps : \A n \in gaps : m <= n
  BY <1>1, LeastOf
<1>3. PICK x \in S : m = N - x
  BY <1>2
<1>4. ASSUME NEW y \in S PROVE x >= y
  <2>1. N - y \in gaps /\ x \in Nat /\ y \in Nat
    BY <1>0
  <2>2. N - x <= N - y
    BY <1>2, <1>3, <2>1
  <2> QED BY <2>1, <2>2
<1> QED BY <1>3, <1>4 DEF Max

(* The grounding of a turn: what it retrieves, and what it may then ask. *)

\* The action and the memory of a learner state decided on are those of the rules.
LEMMA RouteAsks ==
  ASSUME NEW s \in LearnerStates, NEW enough \in BOOLEAN,
         NEW l, l = [s EXCEPT !.sufficient = enough],
         Route(s, Assess(l)) \in {"teach", "correct", "ask"}
  PROVE  enough
<1> SUFFICES ASSUME ~enough PROVE FALSE
  OBVIOUS
<1>1. l.stopped = s.stopped /\ ~l.sufficient
  BY DEF LearnerStates
<1>2. CASE s.stopped
  BY <1>2 DEF Route
<1>3. CASE ~s.stopped
  <2>1. Assess(l) \in {"end", "reflect"}
    BY <1>1, <1>3, Zenon DEF Assess
  <2> QED BY <2>1, <1>3 DEF Route, Actions
<1> QED BY <1>2, <1>3

LEMMA RouteType ==
  ASSUME NEW s, NEW a
  PROVE  Route(s, a) \in Actions \cup {"end", "ask"}
BY DEF Route, Actions

LEMMA SearchOwn ==
  ASSUME NEW t \in Turns, NEW q \in Queries
  PROVE  Search(t, q) \subseteq Hits[q] \cap Readable[t] /\ Search(t, q) \subseteq Chunks
BY GroundingAssumption DEF Search, SearchTextbook

MemoTypeOK ==
  /\ memoTrace \in Turns \cup {None}
  /\ \A m \in memo : /\ m.key \in Turns \X Queries /\ m.found \subseteq Chunks
                     /\ \A n \in memo : n.key = m.key => n = m

\* The memory after a dispatch holds nothing of another trace.
LEMMA KeptOwn ==
  ASSUME MemoTypeOK, MemoIsOwn, NEW t \in Turns, NEW m \in Kept(t)
  PROVE  /\ m \in memo /\ m.key[1] = t /\ m.found \subseteq Hits[m.key[2]] \cap Readable[t]
BY DEF MemoTypeOK, MemoIsOwn, Kept, TraceOf

LEMMA DispatchOwn ==
  ASSUME MemoTypeOK, MemoIsOwn, NEW t \in Turns, Dispatch(t)
  PROVE  MemoTypeOK' /\ MemoIsOwn'
<1>1. memoTrace' = t /\ memo' = Kept(t)
  BY DEF Dispatch, TraceOf
<1>2. MemoTypeOK'
  BY <1>1, KeptOwn DEF MemoTypeOK
<1>3. t # None
  BY GroundingAssumption
<1> QED BY <1>1, <1>2, <1>3, KeptOwn DEF MemoIsOwn

LEMMA RetrieveOwn ==
  ASSUME MemoTypeOK, MemoIsOwn, NEW t \in Turns, NEW q \in Queries,
         NEW found \in SUBSET Chunks, Retrieve(t, q, found)
  PROVE  /\ MemoTypeOK' /\ MemoIsOwn'
         /\ found \subseteq Hits[q] \cap Readable[t]
<1> DEFINE known == {m \in Kept(t) : m.key = MemoKey(t, q)}
<1> DEFINE entry == [key |-> MemoKey(t, q), found |-> found]
<1>0. memoTrace' = t /\ t # None
  BY GroundingAssumption DEF Retrieve, TraceOf
<1>k. MemoKey(t, q) \in Turns \X Queries /\ MemoKey(t, q)[1] = t /\ MemoKey(t, q)[2] = q
  BY DEF MemoKey, TraceOf
<1>t. /\ entry.key = MemoKey(t, q) /\ entry.found = found
  OBVIOUS
<1> HIDE DEF entry
<1>a. CASE memo' = Kept(t) /\ found \subseteq Hits[q] \cap Readable[t]
  <2>1. Dispatch(t)
    BY <1>0, <1>a DEF Dispatch, TraceOf
  <2> QED BY <2>1, <1>a, DispatchOwn
<1>b. CASE known = {} /\ found = Search(t, q) /\ memo' = Kept(t) \cup {entry}
  <2>1. found \subseteq Hits[q] \cap Readable[t]
    BY <1>b, SearchOwn
  <2>2. MemoTypeOK'
    <3>1. \A m \in memo' : m.key \in Turns \X Queries /\ m.found \subseteq Chunks
      BY <1>b, <1>k, <1>t, KeptOwn DEF MemoTypeOK
    <3>2. ASSUME NEW m \in memo', NEW n \in memo', n.key = m.key PROVE n = m
      <4>1. CASE m \in Kept(t) /\ n \in Kept(t)
        BY <4>1, <3>2, KeptOwn DEF MemoTypeOK
      <4>2. CASE m = entry /\ n # entry
        BY <4>2, <3>2, <1>b, <1>t
      <4>3. CASE n = entry /\ m # entry
        BY <4>3, <3>2, <1>b, <1>t
      <4> QED BY <4>1, <4>2, <4>3, <1>b
    <3> QED BY <3>1, <3>2, <1>0 DEF MemoTypeOK
  <2>3. MemoIsOwn'
    BY <1>0, <1>b, <1>k, <1>t, <2>1, KeptOwn DEF MemoIsOwn
  <2> QED BY <2>1, <2>2, <2>3
<1>c. ASSUME NEW m \in known, found = m.found PROVE found \subseteq Hits[q] \cap Readable[t]
  BY <1>c, <1>k, KeptOwn
<1> QED BY <1>a, <1>b, <1>c DEF Retrieve, entry

\* The part of the invariant that is about one turn.
TurnInd(t) ==
  /\ refs[t] \subseteq Hits[AssessQuery[t]] \cap Readable[t]
  /\ given[t] \subseteq Hits[NodeQuery[t]] \cap Readable[t]
  /\ stage[t] = "node" => condition[t].group = "B"
  /\ condition[t].constrained => AsksWithEvidence(t)
  /\ SaidWasGiven(t)

TurnsTypeOK ==
  /\ stage \in [Turns -> Stages] /\ condition \in [Turns -> Conditions]
  /\ action \in [Turns -> Actions \cup {"end", "baseline", None}]
  /\ learner \in [Turns -> LearnerStates \cup {None}]
  /\ refs \in [Turns -> SUBSET Chunks] /\ given \in [Turns -> SUBSET Chunks]
  /\ said \in [Turns -> [kind : Kinds, cites : SUBSET Chunks] \cup {None}]

ByTurns ==
  /\ corpus \subseteq Chunks /\ MemoTypeOK /\ TurnsTypeOK
  /\ MemoIsOwn /\ \A t \in Turns : TurnInd(t)

LEMMA GroundingParts == (GroundingInd <=> ByTurns) /\ (GroundingInd <=> ByTurns)'
<1>1. GroundingInd <=> ByTurns
  BY Zenon DEF ByTurns, GroundingInd, GroundingTypeOK, MemoTypeOK, TurnsTypeOK, TurnInd, FoundIsOwn
<1>2. (GroundingInd <=> ByTurns)'
  BY Zenon DEF ByTurns, GroundingInd, GroundingTypeOK, MemoTypeOK, TurnsTypeOK, TurnInd, FoundIsOwn
<1> QED BY <1>1, <1>2

\* A step of one turn leaves the others as they are.
LEMMA GroundingFrame ==
  ASSUME GroundingInd, NEW t \in Turns,
         corpus' = corpus, condition' = condition, MemoTypeOK', MemoIsOwn', TurnsTypeOK',
         \A u \in Turns \ {t} : /\ stage'[u] = stage[u] /\ action'[u] = action[u]
                                /\ refs'[u] = refs[u] /\ given'[u] = given[u]
                                /\ said'[u] = said[u],
         TurnInd(t)'
  PROVE  GroundingInd'
<1>1. \A u \in Turns : TurnInd(u)
  BY GroundingParts DEF ByTurns
<1>2. ASSUME NEW u \in Turns \ {t} PROVE TurnInd(u)'
  BY <1>1 DEF TurnInd, AsksWithEvidence, SaidWasGiven
<1>3. \A u \in Turns : TurnInd(u)'
  BY <1>2
<1>4. (corpus \subseteq Chunks)'
  BY GroundingParts DEF ByTurns
<1> QED BY <1>3, <1>4, GroundingParts DEF ByTurns

LEMMA SayType ==
  ASSUME TurnsTypeOK, NEW t \in Turns, NEW kind \in Kinds, NEW cites \in SUBSET Chunks,
         NEW references \in SUBSET Chunks, Say(t, kind, cites, references)
  PROVE  /\ said' \in [Turns -> [kind : Kinds, cites : SUBSET Chunks] \cup {None}]
         /\ stage' \in [Turns -> Stages] /\ stage'[t] = "done"
         /\ said'[t].kind = kind
         /\ cites # {} => said'[t].cites = cites
         /\ \A u \in Turns \ {t} : said'[u] = said[u] /\ stage'[u] = stage[u]
<1> DEFINE message == [kind |-> kind, cites |-> IF cites # {} THEN cites ELSE references]
<1>1. message \in [kind : Kinds, cites : SUBSET Chunks]
  OBVIOUS
<1>2. message.kind = kind /\ (cites # {} => message.cites = cites)
  OBVIOUS
<1> HIDE DEF message
<1>3. said' = [said EXCEPT ![t] = message] /\ stage' = [stage EXCEPT ![t] = "done"]
  BY DEF Say, Goto, message
<1>4. "done" \in Stages
  BY DEF Stages
<1> QED BY <1>1, <1>2, <1>3, <1>4 DEF TurnsTypeOK

LEMMA SayPlainType ==
  ASSUME TurnsTypeOK, NEW t \in Turns, NEW kind \in Kinds, NEW references \in SUBSET Chunks,
         Say(t, kind, {}, references)
  PROVE  /\ said' \in [Turns -> [kind : Kinds, cites : SUBSET Chunks] \cup {None}]
         /\ stage' \in [Turns -> Stages] /\ stage'[t] = "done"
         /\ said'[t].kind = kind
         /\ \A u \in Turns \ {t} : said'[u] = said[u] /\ stage'[u] = stage[u]
<1>1. PICK none \in SUBSET Chunks : none = {}
  OBVIOUS
<1>2. Say(t, kind, none, references)
  BY <1>1
<1> QED BY <1>2, SayType

LEMMA GotoType ==
  ASSUME TurnsTypeOK, NEW t \in Turns, NEW st \in Stages, Goto(t, st)
  PROVE  /\ stage' \in [Turns -> Stages] /\ stage'[t] = st
         /\ \A u \in Turns \ {t} : stage'[u] = stage[u]
BY DEF TurnsTypeOK, Goto

LEMMA GroundingInitInd == GroundingInit => GroundingInd
<1> SUFFICES ASSUME GroundingInit PROVE GroundingInd
  OBVIOUS
<1>1. TurnsTypeOK
  BY DEF GroundingInit, TurnsTypeOK, Stages
<1>2. MemoTypeOK /\ MemoIsOwn /\ corpus \subseteq Chunks
  BY DEF GroundingInit, MemoTypeOK, MemoIsOwn
<1>3. ASSUME NEW t \in Turns PROVE TurnInd(t)
  BY DEF GroundingInit, TurnInd, AsksWithEvidence, SaidWasGiven
<1> QED BY <1>1, <1>2, <1>3, GroundingParts DEF ByTurns

LEMMA AssessStep ==
  ASSUME GroundingInd, NEW t \in Turns, AssessNode(t)
  PROVE  GroundingInd'
<1>0. /\ MemoTypeOK /\ MemoIsOwn /\ TurnsTypeOK /\ TurnInd(t)
  BY GroundingParts DEF ByTurns
<1>q. AssessQuery[t] \in Queries /\ condition[t].gap \in BOOLEAN /\ condition[t].constrained \in BOOLEAN
  BY <1>0, GroundingAssumption DEF TurnsTypeOK
<1>1. PICK s \in Situations, found \in SUBSET Chunks :
        /\ IF s.stopped \/ AtLimit(s)
             THEN found = {} /\ UNCHANGED <<memoTrace, memo>>
             ELSE Retrieve(t, AssessQuery[t], found)
        /\ refs' = [refs EXCEPT ![t] = References(t, found)]
        /\ learner' = [learner EXCEPT ![t] = [s EXCEPT !.sufficient = Sufficient(t, found)]]
        /\ action' = [action EXCEPT ![t] = Route(s, Assess(learner'[t]))]
  BY Zenon DEF AssessNode
<1>s. s \in LearnerStates
  BY GroundingAssumption
<1>2. /\ MemoTypeOK' /\ MemoIsOwn' /\ found \subseteq Hits[AssessQuery[t]] \cap Readable[t]
  <2>1. CASE s.stopped \/ AtLimit(s)
    BY <2>1, <1>1, <1>0 DEF MemoTypeOK, MemoIsOwn
  <2>2. CASE ~(s.stopped \/ AtLimit(s))
    BY <2>2, <1>1, <1>0, <1>q, RetrieveOwn
  <2> QED BY <2>1, <2>2
<1> DEFINE enough == Sufficient(t, found)  decided == [s EXCEPT !.sufficient = enough]
           does == Route(s, Assess(decided))
<1>3. enough \in BOOLEAN /\ decided \in LearnerStates
  BY <1>s, <1>q DEF Sufficient, LearnerStates
<1>4. learner' = [learner EXCEPT ![t] = decided] /\ learner'[t] = decided
  BY <1>1, <1>0 DEF TurnsTypeOK
<1>5. action' = [action EXCEPT ![t] = does] /\ action'[t] = does
  BY <1>1, <1>4, <1>0 DEF TurnsTypeOK
<1>6. does \in Actions \cup {"end", "baseline", None}
  BY RouteType DEF Actions
<1>7. does \in {"teach", "correct", "ask"} => enough
  BY <1>s, <1>3, RouteAsks
<1>8. /\ refs' = [refs EXCEPT ![t] = References(t, found)] /\ refs'[t] = References(t, found)
      /\ References(t, found) \subseteq found /\ References(t, found) \in SUBSET Chunks
      /\ condition[t].constrained /\ enough => References(t, found) # {} /\ ~condition[t].gap
  BY <1>1, <1>0 DEF TurnsTypeOK, References, Sufficient
<1> HIDE DEF enough, decided, does
<1>9. /\ corpus' = corpus /\ condition' = condition /\ given' = given
      /\ stage[t] = "new" /\ condition[t].group = "B"
      /\ IF does = "end" THEN Say(t, "template", {}, refs'[t])
         ELSE Goto(t, "node") /\ UNCHANGED said
  BY <1>5, Zenon DEF AssessNode
<1>10. /\ learner' \in [Turns -> LearnerStates \cup {None}]
       /\ action' \in [Turns -> Actions \cup {"end", "baseline", None}]
       /\ refs' \in [Turns -> SUBSET Chunks]
       /\ \A u \in Turns \ {t} : refs'[u] = refs[u] /\ action'[u] = action[u]
  BY <1>0, <1>3, <1>4, <1>5, <1>6, <1>8 DEF TurnsTypeOK
<1>11. /\ said' \in [Turns -> [kind : Kinds, cites : SUBSET Chunks] \cup {None}]
       /\ stage' \in [Turns -> Stages]
       /\ \A u \in Turns \ {t} : said'[u] = said[u] /\ stage'[u] = stage[u]
       /\ \/ stage'[t] = "done" /\ said'[t].kind = "template"
          \/ stage'[t] = "node" /\ said'[t] = said[t]
  <2>1. CASE does = "end"
    <3>1. refs'[t] \in SUBSET Chunks /\ "template" \in Kinds
      BY <1>8 DEF Kinds
    <3> QED BY <2>1, <3>1, <1>9, <1>0, SayPlainType
  <2>2. CASE does # "end"
    <3>1. "node" \in Stages
      BY DEF Stages
    <3> QED BY <2>2, <3>1, <1>9, <1>0, GotoType DEF TurnsTypeOK
  <2> QED BY <2>1, <2>2
<1>12. TurnsTypeOK'
  BY <1>0, <1>9, <1>10, <1>11 DEF TurnsTypeOK
<1>13. said[t] = None
  BY <1>0, <1>9 DEF TurnInd, SaidWasGiven
<1>14. TurnInd(t)'
  <2>1. AsksWithEvidence(t)' \/ ~condition[t].constrained
    BY <1>5, <1>7, <1>8, <1>9, <1>11 DEF AsksWithEvidence
  <2>2. SaidWasGiven(t)'
    BY <1>11, <1>13 DEF SaidWasGiven
  <2> QED BY <2>1, <2>2, <1>0, <1>2, <1>8, <1>9, <1>11 DEF TurnInd
<1> QED BY <1>2, <1>9, <1>10, <1>11, <1>12, <1>14, GroundingFrame

LEMMA GroundedStep ==
  ASSUME GroundingInd, NEW t \in Turns, GroundedNode(t)
  PROVE  GroundingInd'
<1>0. /\ MemoTypeOK /\ MemoIsOwn /\ TurnsTypeOK /\ TurnInd(t)
  BY GroundingParts DEF ByTurns
<1>q. NodeQuery[t] \in Queries
  BY GroundingAssumption
<1>1. PICK found \in SUBSET Chunks :
        /\ Retrieve(t, NodeQuery[t], found)
        /\ IF found = {} /\ condition[t].constrained
            THEN Say(t, "insufficient", {}, refs[t]) /\ UNCHANGED given
            ELSE /\ given' = [given EXCEPT ![t] = found]
                 /\ Goto(t, "generate") /\ UNCHANGED said
  BY Zenon DEF GroundedNode
<1>2. /\ MemoTypeOK' /\ MemoIsOwn' /\ found \subseteq Hits[NodeQuery[t]] \cap Readable[t]
  BY <1>1, <1>0, <1>q, RetrieveOwn
<1>3. /\ corpus' = corpus /\ condition' = condition /\ action' = action
      /\ learner' = learner /\ refs' = refs
      /\ stage[t] = "node" /\ action[t] \in {"teach", "correct"}
  BY DEF GroundedNode
<1>4. said[t] = None /\ condition[t].group = "B"
  BY <1>0, <1>3 DEF TurnInd, SaidWasGiven
<1>5. CASE found = {} /\ condition[t].constrained
  <2>1. "insufficient" \in Kinds /\ refs[t] \in SUBSET Chunks
    BY <1>0 DEF Kinds, TurnsTypeOK
  <2>2. Say(t, "insufficient", {}, refs[t]) /\ given' = given
    BY <1>1, <1>5
  <2>3. TurnsTypeOK'
    BY <2>1, <2>2, <1>0, <1>3, SayPlainType DEF TurnsTypeOK
  <2>4. TurnInd(t)'
    <3>1. stage'[t] = "done" /\ said'[t].kind = "insufficient"
      BY <2>1, <2>2, <1>0, SayPlainType
    <3> QED BY <3>1, <2>2, <1>0, <1>3 DEF TurnInd, AsksWithEvidence, SaidWasGiven
  <2>5. \A u \in Turns \ {t} : said'[u] = said[u] /\ stage'[u] = stage[u]
    BY <2>1, <2>2, <1>0, SayPlainType
  <2> QED BY <2>2, <2>3, <2>4, <2>5, <1>2, <1>3, GroundingFrame
<1>6. CASE ~(found = {} /\ condition[t].constrained)
  <2>1. "generate" \in Stages
    BY DEF Stages
  <2>2. given' = [given EXCEPT ![t] = found] /\ Goto(t, "generate") /\ said' = said
    BY <1>1, <1>6
  <2>3. /\ given' \in [Turns -> SUBSET Chunks] /\ given'[t] = found
        /\ \A u \in Turns \ {t} : given'[u] = given[u]
    BY <2>2, <1>0 DEF TurnsTypeOK
  <2>4. stage' \in [Turns -> Stages] /\ stage'[t] = "generate"
        /\ \A u \in Turns \ {t} : stage'[u] = stage[u]
    BY <2>1, <2>2, <1>0, GotoType
  <2>5. TurnsTypeOK'
    BY <2>2, <2>3, <2>4, <1>0, <1>3 DEF TurnsTypeOK
  <2>6. condition[t].constrained => AsksWithEvidence(t)'
    BY <2>3, <2>4, <1>0, <1>3, <1>4, <1>6 DEF TurnInd, AsksWithEvidence
  <2>7. TurnInd(t)'
    BY <2>2, <2>3, <2>4, <2>6, <1>0, <1>2, <1>3, <1>4 DEF TurnInd, SaidWasGiven
  <2> QED BY <2>2, <2>3, <2>4, <2>5, <2>7, <1>2, <1>3, GroundingFrame
<1> QED BY <1>5, <1>6

\* A turn that says something without citations of its own is done.
LEMMA SaysPlainly ==
  ASSUME GroundingInd, NEW t \in Turns, NEW kind \in Kinds \ {"generated"},
         NEW references \in SUBSET Chunks,
         Say(t, kind, {}, references), MemoTypeOK', MemoIsOwn',
         UNCHANGED <<corpus, condition, learner, refs, given>>,
         action' \in [Turns -> Actions \cup {"end", "baseline", None}],
         \A u \in Turns \ {t} : action'[u] = action[u]
  PROVE  GroundingInd'
<1>0. TurnsTypeOK /\ TurnInd(t)
  BY GroundingParts DEF ByTurns
<1>1. /\ said' \in [Turns -> [kind : Kinds, cites : SUBSET Chunks] \cup {None}]
      /\ stage' \in [Turns -> Stages] /\ stage'[t] = "done" /\ said'[t].kind = kind
      /\ \A u \in Turns \ {t} : said'[u] = said[u] /\ stage'[u] = stage[u]
  BY <1>0, SayPlainType
<1>2. TurnsTypeOK'
  BY <1>0, <1>1 DEF TurnsTypeOK
<1>3. TurnInd(t)'
  BY <1>0, <1>1 DEF TurnInd, AsksWithEvidence, SaidWasGiven
<1> QED BY <1>1, <1>2, <1>3, GroundingFrame

LEMMA RefsType ==
  ASSUME GroundingInd, NEW t \in Turns
  PROVE  /\ refs[t] \in SUBSET Chunks /\ given[t] \in SUBSET Chunks /\ {} \in SUBSET Chunks
         /\ action \in [Turns -> Actions \cup {"end", "baseline", None}]
BY GroundingParts DEF ByTurns, TurnsTypeOK

LEMMA TemplateStep ==
  ASSUME GroundingInd, NEW t \in Turns, TemplateNode(t)
  PROVE  GroundingInd'
<1>1. MemoTypeOK' /\ MemoIsOwn'
  BY GroundingParts, DispatchOwn DEF ByTurns, TemplateNode
<1>2. "template" \in Kinds \ {"generated"}
  BY DEF Kinds
<1>3. Say(t, "template", {}, refs[t]) /\ UNCHANGED <<corpus, condition, action, learner, refs, given>>
  BY DEF TemplateNode
<1> QED BY <1>1, <1>2, <1>3, RefsType, SaysPlainly

LEMMA MemoFrame ==
  ASSUME GroundingInd, UNCHANGED <<memoTrace, memo>>
  PROVE  MemoTypeOK' /\ MemoIsOwn'
BY GroundingParts DEF ByTurns, MemoTypeOK, MemoIsOwn

LEMMA AskStep ==
  ASSUME GroundingInd, NEW t \in Turns, AskNode(t)
  PROVE  GroundingInd'
<1>0. TurnsTypeOK /\ TurnInd(t)
  BY GroundingParts DEF ByTurns
<1>1. MemoTypeOK' /\ MemoIsOwn'
  BY GroundingParts, DispatchOwn DEF ByTurns, AskNode
<1>2. /\ UNCHANGED <<corpus, condition, action, learner, refs, given, said>>
      /\ stage[t] = "node" /\ action[t] = "ask" /\ Goto(t, "generate") /\ "generate" \in Stages
  BY DEF AskNode, Stages
<1>3. /\ stage' \in [Turns -> Stages] /\ stage'[t] = "generate"
      /\ \A u \in Turns \ {t} : stage'[u] = stage[u]
  BY <1>0, <1>2, GotoType
<1>4. TurnsTypeOK'
  BY <1>0, <1>2, <1>3 DEF TurnsTypeOK
<1>5. condition[t].constrained => AsksWithEvidence(t)'
  BY <1>0, <1>2, <1>3 DEF TurnInd, AsksWithEvidence
<1>6. TurnInd(t)'
  BY <1>0, <1>2, <1>3, <1>5 DEF TurnInd, SaidWasGiven
<1> QED BY <1>1, <1>2, <1>3, <1>4, <1>6, GroundingFrame

LEMMA GeneratedStep ==
  ASSUME GroundingInd, NEW t \in Turns, Generated(t)
  PROVE  GroundingInd'
<1>0. TurnsTypeOK /\ TurnInd(t)
  BY GroundingParts DEF ByTurns
<1>1. MemoTypeOK' /\ MemoIsOwn'
  BY MemoFrame DEF Generated
<1>2. /\ stage[t] = "generate" /\ action[t] \in {"teach", "correct"}
      /\ Say(t, "generated", given[t], refs[t])
      /\ UNCHANGED <<corpus, condition, action, learner, refs, given>>
      /\ "generated" \in Kinds
  BY DEF Generated, Kinds
<1>r. PICK cites \in SUBSET Chunks, references \in SUBSET Chunks, kind \in Kinds :
        cites = given[t] /\ references = refs[t] /\ kind = "generated"
  BY <1>2, RefsType
<1>g. Say(t, kind, cites, references)
  BY <1>2, <1>r
<1>s. /\ said' \in [Turns -> [kind : Kinds, cites : SUBSET Chunks] \cup {None}]
      /\ stage' \in [Turns -> Stages] /\ stage'[t] = "done"
      /\ cites # {} => said'[t].cites = cites
      /\ \A u \in Turns \ {t} : said'[u] = said[u] /\ stage'[u] = stage[u]
  <2>1. TurnsTypeOK
    BY <1>0
  <2> QED BY <2>1, <1>g, SayType
<1>3. /\ said' \in [Turns -> [kind : Kinds, cites : SUBSET Chunks] \cup {None}]
      /\ stage' \in [Turns -> Stages] /\ stage'[t] = "done"
      /\ given[t] # {} => said'[t].cites = given[t]
      /\ \A u \in Turns \ {t} : said'[u] = said[u] /\ stage'[u] = stage[u]
  BY <1>s, <1>r
<1>4. condition[t].constrained => given[t] # {}
  BY <1>0, <1>2 DEF TurnInd, AsksWithEvidence
<1>5. TurnsTypeOK'
  BY <1>0, <1>2, <1>3 DEF TurnsTypeOK
<1>6. TurnInd(t)'
  BY <1>0, <1>2, <1>3, <1>4 DEF TurnInd, AsksWithEvidence, SaidWasGiven
<1> QED BY <1>1, <1>2, <1>3, <1>5, <1>6, GroundingFrame

LEMMA AnswerSteps ==
  ASSUME GroundingInd, NEW t \in Turns, Asked(t) \/ FellBack(t)
  PROVE  GroundingInd'
<1>1. MemoTypeOK' /\ MemoIsOwn'
  BY MemoFrame DEF Asked, FellBack
<1>2. PICK kind \in Kinds \ {"generated"} :
        /\ Say(t, kind, {}, refs[t])
        /\ UNCHANGED <<corpus, condition, action, learner, refs, given>>
  BY DEF Asked, FellBack, Kinds
<1> QED BY <1>1, <1>2, RefsType, SaysPlainly

LEMMA BaselineStep ==
  ASSUME GroundingInd, NEW t \in Turns, Baseline(t)
  PROVE  GroundingInd'
<1>0. TurnsTypeOK /\ TurnInd(t)
  BY GroundingParts DEF ByTurns
<1>1. MemoTypeOK' /\ MemoIsOwn'
  BY MemoFrame DEF Baseline
<1> DEFINE found == Search(t, NodeQuery[t])
<1>2. /\ stage[t] = "new" /\ condition[t].group = "A"
      /\ action' = [action EXCEPT ![t] = "baseline"]
      /\ UNCHANGED <<corpus, condition, learner, refs>>
      /\ IF found = {} /\ condition[t].constrained
           THEN Say(t, "insufficient", {}, {}) /\ UNCHANGED given
           ELSE /\ given' = [given EXCEPT ![t] = found]
                /\ Goto(t, "generate") /\ UNCHANGED said
  BY DEF Baseline
<1>3. found \subseteq Hits[NodeQuery[t]] \cap Readable[t] /\ found \in SUBSET Chunks
  BY SearchOwn, GroundingAssumption
<1> HIDE DEF found
<1>4. /\ action' \in [Turns -> Actions \cup {"end", "baseline", None}]
      /\ action'[t] = "baseline" /\ \A u \in Turns \ {t} : action'[u] = action[u]
  BY <1>0, <1>2 DEF TurnsTypeOK
<1>5. CASE found = {} /\ condition[t].constrained
  <2>1. PICK none \in SUBSET Chunks : none = {}
    OBVIOUS
  <2>2. Say(t, "insufficient", {}, none) /\ given' = given /\ "insufficient" \in Kinds \ {"generated"}
    BY <1>2, <1>5, <2>1 DEF Kinds
  <2> QED BY <2>2, <1>1, <1>2, <1>4, SaysPlainly
<1>6. CASE ~(found = {} /\ condition[t].constrained)
  <2>1. /\ given' = [given EXCEPT ![t] = found] /\ Goto(t, "generate") /\ said' = said
        /\ "generate" \in Stages
    BY <1>2, <1>6 DEF Stages
  <2>2. /\ given' \in [Turns -> SUBSET Chunks] /\ given'[t] = found
        /\ \A u \in Turns \ {t} : given'[u] = given[u]
    BY <2>1, <1>0, <1>3 DEF TurnsTypeOK
  <2>3. stage' \in [Turns -> Stages] /\ stage'[t] = "generate"
        /\ \A u \in Turns \ {t} : stage'[u] = stage[u]
    BY <2>1, <1>0, GotoType
  <2>4. TurnsTypeOK'
    BY <2>1, <2>2, <2>3, <1>0, <1>2, <1>4 DEF TurnsTypeOK
  <2>5. condition[t].constrained => AsksWithEvidence(t)'
    BY <2>2, <2>3, <1>2, <1>4, <1>6 DEF AsksWithEvidence
  <2>6. TurnInd(t)'
    BY <2>1, <2>2, <2>3, <2>5, <1>0, <1>2, <1>3 DEF TurnInd, SaidWasGiven
  <2> QED BY <2>1, <2>2, <2>3, <2>4, <2>6, <1>1, <1>2, <1>4, GroundingFrame
<1> QED BY <1>5, <1>6

LEMMA BaselineAskedStep ==
  ASSUME GroundingInd, NEW t \in Turns, BaselineAsked(t)
  PROVE  GroundingInd'
<1>0. TurnsTypeOK /\ TurnInd(t)
  BY GroundingParts DEF ByTurns
<1>1. MemoTypeOK' /\ MemoIsOwn'
  BY MemoFrame DEF BaselineAsked
<1>2. PICK kind \in {"question", "fallback"}, none \in SUBSET Chunks :
        none = {} /\ Say(t, kind, given[t], none)
  BY DEF BaselineAsked
<1>3. UNCHANGED <<corpus, condition, action, learner, refs, given>>
  BY DEF BaselineAsked
<1>4. kind \in Kinds /\ kind # "generated"
  BY DEF Kinds
<1>r. PICK cites \in SUBSET Chunks : cites = given[t]
  BY RefsType
<1>g. Say(t, kind, cites, none)
  BY <1>2, <1>r
<1>5. /\ said' \in [Turns -> [kind : Kinds, cites : SUBSET Chunks] \cup {None}]
      /\ stage' \in [Turns -> Stages] /\ stage'[t] = "done" /\ said'[t].kind = kind
      /\ \A u \in Turns \ {t} : said'[u] = said[u] /\ stage'[u] = stage[u]
  BY <1>0, <1>4, <1>g, SayType
<1>6. TurnsTypeOK'
  BY <1>0, <1>3, <1>5 DEF TurnsTypeOK
<1>7. TurnInd(t)'
  BY <1>0, <1>3, <1>4, <1>5 DEF TurnInd, AsksWithEvidence, SaidWasGiven
<1> QED BY <1>1, <1>3, <1>5, <1>6, <1>7, GroundingFrame

LEMMA TurnEndsStep ==
  ASSUME GroundingInd, NEW t \in Turns, TurnEnds(t)
  PROVE  GroundingInd'
<1>0. TurnsTypeOK /\ TurnInd(t)
  BY GroundingParts DEF ByTurns
<1>1. MemoTypeOK' /\ MemoIsOwn'
  BY MemoFrame DEF TurnEnds
<1>2. /\ UNCHANGED <<corpus, condition, action, learner, refs, given, said>>
      /\ Goto(t, "done") /\ "done" \in Stages
  BY DEF TurnEnds, Stages
<1>3. /\ stage' \in [Turns -> Stages] /\ stage'[t] = "done"
      /\ \A u \in Turns \ {t} : stage'[u] = stage[u]
  BY <1>0, <1>2, GotoType
<1>4. TurnsTypeOK'
  BY <1>0, <1>2, <1>3 DEF TurnsTypeOK
<1>5. TurnInd(t)'
  BY <1>0, <1>2, <1>3 DEF TurnInd, AsksWithEvidence, SaidWasGiven
<1> QED BY <1>1, <1>2, <1>3, <1>4, <1>5, GroundingFrame

LEMMA GroundingUnchanged == GroundingInd /\ UNCHANGED groundingVars => GroundingInd'
<1> SUFFICES ASSUME GroundingInd, UNCHANGED groundingVars PROVE GroundingInd'
  OBVIOUS
<1>1. (corpus \subseteq Chunks)' /\ MemoTypeOK' /\ MemoIsOwn'
  BY GroundingParts, MemoFrame DEF ByTurns, groundingVars
<1>2. TurnsTypeOK' /\ \A t \in Turns : TurnInd(t)'
  BY GroundingParts DEF ByTurns, groundingVars, TurnsTypeOK, TurnInd, AsksWithEvidence, SaidWasGiven
<1> QED BY <1>1, <1>2, GroundingParts DEF ByTurns

LEMMA CorpusStep == GroundingInd /\ CorpusGrows => GroundingInd'
<1> SUFFICES ASSUME GroundingInd, CorpusGrows PROVE GroundingInd'
  OBVIOUS
<1>1. (corpus \subseteq Chunks)'
  BY GroundingParts DEF ByTurns, CorpusGrows
<1>2. MemoTypeOK' /\ MemoIsOwn'
  BY MemoFrame DEF CorpusGrows
<1>3. TurnsTypeOK' /\ \A t \in Turns : TurnInd(t)'
  BY GroundingParts DEF ByTurns, CorpusGrows, TurnsTypeOK, TurnInd, AsksWithEvidence, SaidWasGiven
<1> QED BY <1>1, <1>2, <1>3, GroundingParts DEF ByTurns

LEMMA GroundingStep == GroundingInd /\ GroundingNext => GroundingInd'
<1> SUFFICES ASSUME GroundingInd, GroundingNext PROVE GroundingInd'
  OBVIOUS
<1>1. ASSUME NEW t \in Turns,
             \/ AssessNode(t) \/ TeachNode(t) \/ CorrectNode(t) \/ AskNode(t)
             \/ HintNode(t) \/ ReflectNode(t) \/ TestNode(t)
             \/ Generated(t) \/ Asked(t) \/ FellBack(t)
             \/ Baseline(t) \/ BaselineAsked(t) \/ TurnEnds(t)
      PROVE  GroundingInd'
  BY <1>1, AssessStep, GroundedStep, AskStep, TemplateStep, GeneratedStep, AnswerSteps,
     BaselineStep, BaselineAskedStep, TurnEndsStep
     DEF TeachNode, CorrectNode, HintNode, ReflectNode, TestNode
<1> QED BY <1>1, CorpusStep DEF GroundingNext

LEMMA GroundingHolds ==
  GroundingInd => GroundingTypeOK /\ OwnEvidence /\ ModelOnlyWithEvidence
<1> SUFFICES ASSUME GroundingInd PROVE OwnEvidence /\ ModelOnlyWithEvidence
  BY DEF GroundingInd
<1>1. OwnEvidence
  BY DEF GroundingInd, FoundIsOwn, SaidWasGiven, OwnEvidence
<1>2. ModelOnlyWithEvidence
  <2> SUFFICES ASSUME NEW t \in Turns, stage[t] = "generate", condition[t].constrained
               PROVE  /\ refs[t] \cup given[t] # {}
                      /\ condition[t].group = "B" => ~condition[t].gap
    BY DEF ModelOnlyWithEvidence
  <2>1. AsksWithEvidence(t) /\ condition[t].group \in {"A", "B"}
    BY GroundingAssumption DEF GroundingInd, GroundingTypeOK
  <2> QED BY <2>1 DEF AsksWithEvidence
<1> QED BY <1>1, <1>2

(* The dispatcher: what it makes of every decision of the graph. *)

LEMMA Joined ==
  ASSUME NEW x
  PROVE  <<x>> \o <<>> = <<x>>
<1>1. <<x>> \in Seq({x})
  OBVIOUS
<1> QED BY <1>1, ConcatEmptySeq

LEMMA JoinedNothing ==
   <<>> \o <<>> = <<>>
<1>1. <<>> \in Seq(STRING)
  OBVIOUS
<1> QED BY <1>1, ConcatEmptySeq

LEMMA NoBlockIs ==
  ASSUME NEW d, NEW name
  PROVE  ~NotFound(NoBlock, d) /\ Missing(NoBlock, d) = {} /\ Part(NoBlock, d, name) = <<>>
<1>1. NoBlock.given = FALSE
  BY DEF NoBlock
<1> QED BY <1>1, Zenon DEF NotFound, Missing, Part

LEMMA TextIs ==
  ASSUME NEW d, NEW name, NEW reads
  PROVE  /\ Text(reads).given /\ ~NotFound(Text(reads), d) /\ Part(Text(reads), d, name) = <<name>>
         /\ Missing(Text(reads), d) = reads \ d.fields
<1>1. Text(reads).given = TRUE /\ Text(reads).select = "" /\ Text(reads).reads = reads
  BY DEF Text
<1>2. Text(reads).given
  BY <1>1, Zenon
<1>3. "" # "evidence_sufficient"
  OBVIOUS
<1>4. Missing(Text(reads), d) = reads \ d.fields
  BY <1>1, Zenon DEF Missing
<1>5. ~NotFound(Text(reads), d)
  BY <1>1, Zenon DEF NotFound
<1>6. Part(Text(reads), d, name) = <<name>>
  BY <1>1, <1>3, Zenon DEF Part
<1> QED BY <1>2, <1>4, <1>5, <1>6

LEMMA ChoiceIs ==
  ASSUME NEW d, NEW name, NEW select, NEW keys, select # "",
         select \in d.fields, ValueOf(d, select) \in keys
  PROVE  ~NotFound(Choice(select, keys), d) /\ Missing(Choice(select, keys), d) = {}
<1>1. Choice(select, keys).select = select /\ Choice(select, keys).reads = {} /\ Choice(select, keys).keys = keys
  BY DEF Choice
<1> QED BY <1>1, Zenon DEF NotFound, Missing

LEMMA Bindings ==
  /\ ActionBindings["assess"] = EvidenceBinding /\ ActionBindings["end"] = Template(Text({}), {})
  /\ ActionBindings["reflect"] = ReflectBinding /\ ActionBindings["hint"] = HintBinding
  /\ ActionBindings["ask"] = AskBinding /\ ActionBindings["teach"] = TeachBinding
  /\ ActionBindings["correct"] = CorrectBinding /\ ActionBindings["test"] = TestBinding
BY DEF ActionBindings, DispatchedActions


\* The binding of an action; its primitive runs if no gate and no field is in the way.
LEMMA RunsPrimitive ==
  ASSUME NEW d, NEW host, NEW c, d.action \in DispatchedActions,
         ActionBindings[d.action].capability \in Primitives,
         ActionBindings[d.action].reads \subseteq d.fields,
         ~Gated(ActionBindings[d.action], d, host, c),
         ~NotFound(ActionBindings[d.action].suffix, d),
         Missing(ActionBindings[d.action].suffix, d) = {}
  PROVE  Execute(d, host, c) = Reply(ActionBindings[d.action], d, host,
                                     ActionBindings[d.action].evidence /\ Collected(d, host))
<1>1. d.action \in DOMAIN ActionBindings
  BY DEF ActionBindings
<1>2. ActionBindings[d.action].reads \ d.fields = {}
  OBVIOUS
<1> QED BY <1>1, <1>2, Zenon DEF Execute

LEMMA Insufficient ==
  ASSUME NEW d, NEW host, NEW c, d.action \in DispatchedActions,
         ActionBindings[d.action].capability \in Primitives,
         ActionBindings[d.action].reads \subseteq d.fields,
         Gated(ActionBindings[d.action], d, host, c),
         ~NotFound(ActionBindings[d.action].insufficient, d)
  PROVE  Execute(d, host, c)
           = Result("insufficient_evidence",
                    Part(ActionBindings[d.action].insufficient, d, "insufficient"), FALSE, FALSE)
<1>1. d.action \in DOMAIN ActionBindings
  BY DEF ActionBindings
<1>2. ActionBindings[d.action].reads \ d.fields = {}
  OBVIOUS
<1> QED BY <1>1, <1>2, Zenon DEF Execute

LEMMA Answers ==
  ASSUME NEW b, NEW d, NEW host, NEW status, NEW content, NEW asked, NEW asIs, NEW got, NEW both,
         status \in {"success", "insufficient_evidence"}, (got \/ asIs) = both,
         RunPrimitive(b, d, host, asIs) = Ran(status, content, got, asked)
  PROVE  Reply(b, d, host, asIs) = Result(status, content \o Part(b.suffix, d, "note"), both, asked)
<1> DEFINE ran == Ran(status, content, got, asked)
<1>1. ran.status = status /\ ran.content = content /\ ran.asked = asked /\ ran.evidence = got
  BY DEF Ran
<1> HIDE DEF ran
<1>2. RunPrimitive(b, d, host, asIs) = ran
  BY DEF ran
<1>3. status # "raises"
  OBVIOUS
<1> QED BY <1>1, <1>2, <1>3, Zenon DEF Reply

LEMMA FallsBack ==
  ASSUME NEW b, NEW d, NEW host, NEW asked, NEW asIs,
         RunPrimitive(b, d, host, asIs) = Raises(asked),
         b.fallback.given, ~NotFound(b.fallback, d), Missing(b.fallback, d) = {}
  PROVE  Reply(b, d, host, asIs)
           = Result("success", <<"fallback">> \o Part(b.suffix, d, "note"), FALSE, asked)
<1> DEFINE ran == Raises(asked)
<1>1. ran.status = "raises" /\ ran.asked = asked
  BY DEF Raises, Ran
<1> HIDE DEF ran
<1>2. RunPrimitive(b, d, host, asIs) = ran
  BY DEF ran
<1> QED BY <1>1, <1>2, Zenon DEF Reply, FallBack

\* What the primitives reply.
LEMMA TemplateAnswers ==
  ASSUME NEW b, NEW d, NEW host, b.capability = "render_template", ~NotFound(b.body, d),
         Part(b.suffix, d, "note") = <<>>
  PROVE  Reply(b, d, host, FALSE) = Result("success", <<"text">>, FALSE, FALSE)
<1> DEFINE text == <<"text">>  no == FALSE
<1>1. RunPrimitive(b, d, host, no) = Ran("success", text, no, no) /\ (no \/ no) = no
  BY Zenon DEF RunPrimitive
<1>2. text \o <<>> = text
  BY Joined
<1> HIDE DEF text, no
<1>3. Reply(b, d, host, no) = Result("success", text \o Part(b.suffix, d, "note"), no, no)
  BY <1>1, Answers
<1>4. Reply(b, d, host, no) = Result("success", text, no, no)
  BY <1>2, <1>3, Zenon
<1> QED BY <1>4 DEF text, no

LEMMA SkillAnswers ==
  ASSUME NEW b, NEW d, NEW host, b.capability = "invoke_skill",
         b.fallback.given, ~NotFound(b.fallback, d), Missing(b.fallback, d) = {}
  PROVE  \E kind \in {"skill", "fallback"} :
           Reply(b, d, host, FALSE) = Result("success", <<kind>> \o Part(b.suffix, d, "note"), FALSE, FALSE)
<1>1. CASE host.skill = "ok"
  <2> DEFINE text == <<"skill">>  no == FALSE
  <2>1. RunPrimitive(b, d, host, no) = Ran("success", text, no, no) /\ (no \/ no) = no
    BY <1>1, Zenon DEF RunPrimitive
  <2> HIDE DEF text, no
  <2>2. Reply(b, d, host, no) = Result("success", text \o Part(b.suffix, d, "note"), no, no)
    BY <2>1, Answers
  <2> QED BY <2>2 DEF text, no
<1>2. CASE host.skill # "ok"
  <2>1. RunPrimitive(b, d, host, FALSE) = Raises(FALSE)
    BY <1>2, Zenon DEF RunPrimitive
  <2>2. Reply(b, d, host, FALSE)
          = Result("success", <<"fallback">> \o Part(b.suffix, d, "note"), FALSE, FALSE)
    BY <2>1, FallsBack
  <2> QED BY <2>2
<1> QED BY <1>1, <1>2

LEMMA GroundedAnswers ==
  ASSUME NEW b, NEW d, NEW host, NEW found \in BOOLEAN, b.capability = "generate_grounded",
         b.fallback.given, ~NotFound(b.fallback, d), Missing(b.fallback, d) = {},
         Part(b.suffix, d, "note") = <<>>
  PROVE  Reply(b, d, host, found) =
           IF host.model THEN Result("success", <<"generated">>, found, TRUE)
                         ELSE Result("success", <<"fallback">>, FALSE, TRUE)
<1>1. CASE host.model
  <2> DEFINE text == <<"generated">>  yes == TRUE
  <2>1. RunPrimitive(b, d, host, found) = Ran("success", text, found, yes)
    BY <1>1, Zenon DEF RunPrimitive
  <2>0. (found \/ found) = found
    OBVIOUS
  <2>2. text \o <<>> = text
    BY Joined
  <2> HIDE DEF text, yes
  <2>3. Reply(b, d, host, found) = Result("success", text \o Part(b.suffix, d, "note"), found, yes)
    BY <2>0, <2>1, Answers
  <2>4. Reply(b, d, host, found) = Result("success", text, found, yes)
    BY <2>2, <2>3, Zenon
  <2> QED BY <1>1, <2>4 DEF text, yes
<1>2. CASE ~host.model
  <2>1. RunPrimitive(b, d, host, found) = Raises(TRUE)
    BY <1>2, Zenon DEF RunPrimitive
  <2>2. Reply(b, d, host, found)
          = Result("success", <<"fallback">> \o Part(b.suffix, d, "note"), FALSE, TRUE)
    BY <2>1, FallsBack
  <2>3. <<"fallback">> \o Part(b.suffix, d, "note") = <<"fallback">>
    BY Joined
  <2> QED BY <1>2, <2>2, <2>3, Zenon
<1> QED BY <1>1, <1>2

LEMMA SearchAnswers ==
  ASSUME NEW b, NEW d, NEW host, host.found \in BOOLEAN, NEW no \in BOOLEAN, ~no, b.capability = "retrieve_evidence",
         Part(b.suffix, d, "note") = <<>>
  PROVE  LET r == Reply(b, d, host, no) IN
         /\ r.status \in {"success", "insufficient_evidence"}
         /\ (r.evidence => host.found) /\ ~r.asked
<1> DEFINE status == IF host.found THEN "success" ELSE "insufficient_evidence"
           nothing == <<>>
           found == host.found
<1>0. no = FALSE
  OBVIOUS
<1>1. RunPrimitive(b, d, host, no) = Ran(status, nothing, found, no)
  BY <1>0, Zenon DEF RunPrimitive
<1>2. status \in {"success", "insufficient_evidence"} /\ (found \/ no) = found
  OBVIOUS
<1>3. nothing \o nothing = nothing
  BY JoinedNothing
<1>4. Part(b.suffix, d, "note") = nothing
  OBVIOUS
<1> DEFINE r == Result(status, nothing, found, no)
<1>5. r.status = status /\ r.evidence = found /\ r.asked = no
  BY DEF Result
<1> HIDE DEF status, nothing, found
<1>6. Reply(b, d, host, no) = Result(status, nothing \o Part(b.suffix, d, "note"), found, no)
  BY <1>1, <1>2, Answers
<1>7. Reply(b, d, host, no) = r
  BY <1>3, <1>4, <1>6, Zenon
<1> HIDE DEF r
<1>8. r.status \in {"success", "insufficient_evidence"} /\ (r.evidence => host.found) /\ ~r.asked
  BY <1>2, <1>5 DEF found
<1> QED BY <1>7, <1>8

\* A template whose text and fields are there.
LEMMA TemplateReplies ==
  ASSUME NEW d, NEW c, d.action \in DispatchedActions \ {"assess", "teach", "correct"},
         NEW block, NEW reads, ActionBindings[d.action] = Template(block, reads),
         reads \subseteq d.fields, d.require = FALSE, ~NotFound(block, d)
  PROVE  WellAssembled(d, c)
<1> DEFINE b == ActionBindings[d.action]
<1>1. /\ b.capability = "render_template" /\ b.reads = reads /\ b.evidence = FALSE
      /\ b.suffix = NoBlock /\ b.body = block
  BY DEF Template, Bound
<1>2. b.capability \in Primitives
  BY <1>1 DEF Primitives
<1>3. ~NotFound(b.suffix, d) /\ Missing(b.suffix, d) = {} /\ Part(b.suffix, d, "note") = <<>>
  BY <1>1, NoBlockIs
<1>4. ASSUME NEW host \in Hosts
      PROVE  Execute(d, host, c) = Result("success", <<"text">>, FALSE, FALSE)
  <2>1. ~Gated(b, d, host, c) /\ (b.evidence /\ Collected(d, host)) = FALSE
    BY <1>1 DEF Gated
  <2>2. Execute(d, host, c) = Reply(b, d, host, FALSE)
    BY <1>1, <1>2, <1>3, <2>1, RunsPrimitive
  <2> QED BY <1>1, <1>3, <2>2, TemplateAnswers
<1>5. <<"text">> # <<>>
  OBVIOUS
<1>6. ASSUME NEW host \in Hosts, NEW r, r = Execute(d, host, c)
      PROVE  r.status = "success" /\ r.content # <<>> /\ r.evidence = FALSE /\ r.asked = FALSE
  BY <1>4, <1>5, <1>6 DEF Result
<1> QED BY <1>6 DEF WellAssembled

\* A skill with a fallback, and a note whose text is there.
LEMMA SkillReplies ==
  ASSUME NEW d, NEW c \in BOOLEAN,
         d.action \in DispatchedActions \ {"assess", "teach", "correct"},
         NEW b, b = ActionBindings[d.action],
         b.capability = "invoke_skill", b.reads \subseteq d.fields,
         b.evidence = FALSE, d.require = FALSE,
         ~NotFound(b.suffix, d), Missing(b.suffix, d) = {},
         NEW reads, reads \subseteq d.fields, b.fallback = Text(reads)
  PROVE  WellAssembled(d, c)
<1>1. b.capability \in Primitives
  BY DEF Primitives
<1>2. b.fallback.given /\ ~NotFound(b.fallback, d) /\ Missing(b.fallback, d) = {}
  <2>1. reads \ d.fields = {}
    OBVIOUS
  <2>2. Text(reads).given /\ ~NotFound(Text(reads), d) /\ Missing(Text(reads), d) = {}
    BY <2>1, TextIs
  <2> QED BY <2>2
<1>3. ASSUME NEW host \in Hosts
      PROVE  \E kind \in {"skill", "fallback"} :
               Execute(d, host, c) = Result("success", <<kind>> \o Part(b.suffix, d, "note"), FALSE, FALSE)
  <2>1. ~Gated(b, d, host, c) /\ (b.evidence /\ Collected(d, host)) = FALSE
    BY DEF Gated
  <2>2. Execute(d, host, c) = Reply(b, d, host, FALSE)
    BY <1>1, <2>1, RunsPrimitive
  <2> QED BY <1>2, <2>2, SkillAnswers
<1>4. ASSUME NEW kind \in {"skill", "fallback"} PROVE <<kind>> \o Part(b.suffix, d, "note") # <<>>
  <2>1. Part(b.suffix, d, "note") = <<>> \/ Part(b.suffix, d, "note") = <<"note">>
    BY Zenon DEF Part
  <2> QED BY <2>1
<1> QED BY <1>3, <1>4 DEF WellAssembled, Result

\* An explanation: its evidence first, and a text for when there is none.
LEMMA GroundedReplies ==
  ASSUME NEW d, NEW c \in BOOLEAN, d.action \in {"teach", "correct"},
         NEW reads, NEW others, ActionBindings[d.action] = Grounded(reads, others),
         reads \subseteq d.fields, EvidenceBinding.reads \subseteq d.fields, d.require = c
  PROVE  WellAssembled(d, c)
<1> DEFINE b == ActionBindings[d.action]
<1>1. /\ b.capability = "generate_grounded" /\ b.reads = reads /\ b.evidence = TRUE
      /\ b.suffix = NoBlock /\ b.fallback = Text({}) /\ b.insufficient = Text(others)
  BY DEF Grounded, Bound
<1>2. b.capability \in Primitives /\ d.action \in DispatchedActions
  BY <1>1 DEF Primitives, DispatchedActions
<1>3. ~NotFound(b.suffix, d) /\ Missing(b.suffix, d) = {} /\ Part(b.suffix, d, "note") = <<>>
  BY <1>1, NoBlockIs
<1>4. b.fallback.given /\ ~NotFound(b.fallback, d) /\ Missing(b.fallback, d) = {}
  <2>1. {} \ d.fields = {}
    OBVIOUS
  <2> QED BY <1>1, <2>1, TextIs
<1>5. ~NotFound(b.insufficient, d) /\ Part(b.insufficient, d, "insufficient") = <<"insufficient">>
  BY <1>1, TextIs
<1>6. ASSUME NEW host \in Hosts
      PROVE  \/ c /\ ~host.found
                /\ Execute(d, host, c) = Result("insufficient_evidence", <<"insufficient">>, FALSE, FALSE)
             \/ (c => host.found) /\ host.model
                /\ Execute(d, host, c) = Result("success", <<"generated">>, host.found, TRUE)
             \/ (c => host.found) /\ ~host.model
                /\ Execute(d, host, c) = Result("success", <<"fallback">>, FALSE, TRUE)
  <2>0. host.found \in BOOLEAN /\ host.model \in BOOLEAN
    BY DEF Hosts
  <2>1. Collected(d, host) = host.found
    BY <2>0 DEF Collected
  <2>2. CASE c /\ ~host.found
    <3>1. Gated(b, d, host, c)
      BY <1>1, <2>1, <2>2 DEF Gated
    <3> QED BY <1>1, <1>2, <1>5, <2>2, <3>1, Insufficient
  <2>3. CASE ~(c /\ ~host.found)
    <3>1. ~Gated(b, d, host, c) /\ (b.evidence /\ Collected(d, host)) = host.found
      BY <1>1, <2>0, <2>1, <2>3 DEF Gated
    <3>2. Execute(d, host, c) = Reply(b, d, host, host.found)
      BY <1>1, <1>2, <1>3, <3>1, RunsPrimitive
    <3>3. Reply(b, d, host, host.found) =
            IF host.model THEN Result("success", <<"generated">>, host.found, TRUE)
                          ELSE Result("success", <<"fallback">>, FALSE, TRUE)
      <4>1. b.capability = "generate_grounded"
        BY <1>1
      <4> HIDE DEF b
      <4> QED BY <1>3, <1>4, <2>0, <4>1, GroundedAnswers, Zenon
    <3> QED BY <2>0, <2>3, <3>2, <3>3
  <2> QED BY <2>2, <2>3
<1>7. <<"insufficient">> # <<>> /\ <<"generated">> # <<>> /\ <<"fallback">> # <<>>
      /\ <<"fallback">> # <<"generated">>
  OBVIOUS
<1>8. ASSUME NEW host \in Hosts, NEW r, r = Execute(d, host, c)
      PROVE  /\ r.status \in {"success", "insufficient_evidence"} /\ r.content # <<>>
             /\ r.evidence => host.found /\ r.content = <<"generated">>
             /\ r.asked => (c => host.found)
             /\ host.found /\ host.model => r.content = <<"generated">>
  <2>0. host.found \in BOOLEAN /\ host.model \in BOOLEAN
    BY DEF Hosts
  <2>1. CASE c /\ ~host.found /\ r = Result("insufficient_evidence", <<"insufficient">>, FALSE, FALSE)
    BY <1>7, <2>1 DEF Result
  <2>2. CASE (c => host.found) /\ host.model /\ r = Result("success", <<"generated">>, host.found, TRUE)
    BY <1>7, <2>0, <2>2 DEF Result
  <2>3. CASE (c => host.found) /\ ~host.model /\ r = Result("success", <<"fallback">>, FALSE, TRUE)
    BY <1>7, <2>0, <2>3 DEF Result
  <2> QED BY <1>6, <1>8, <2>1, <2>2, <2>3
<1> QED BY <1>8 DEF WellAssembled

\* The search before a decision: passages, or that there are none.
LEMMA SearchReplies ==
  ASSUME NEW d, NEW c \in BOOLEAN, d.action = "assess",
         EvidenceBinding.reads \subseteq d.fields, d.require = FALSE
  PROVE  WellAssembled(d, c)
<1> DEFINE b == ActionBindings[d.action]
<1>1. b = EvidenceBinding /\ d.action \in DispatchedActions
  BY Bindings DEF DispatchedActions
<1>2. b.capability = "retrieve_evidence" /\ b.evidence = FALSE /\ b.suffix = NoBlock
  BY <1>1 DEF EvidenceBinding, Bound
<1>3. b.capability \in Primitives
  BY <1>2 DEF Primitives
<1>4. ~NotFound(b.suffix, d) /\ Missing(b.suffix, d) = {} /\ Part(b.suffix, d, "note") = <<>>
  BY <1>2, NoBlockIs
<1>5. ASSUME NEW host \in Hosts, NEW r, r = Execute(d, host, c)
      PROVE  /\ r.status \in {"success", "insufficient_evidence"}
             /\ (r.evidence => host.found) /\ ~r.asked
  <2>1. host.found \in BOOLEAN
    BY DEF Hosts
  <2>2. ~Gated(b, d, host, c) /\ (b.evidence /\ Collected(d, host)) = FALSE
    BY <1>2 DEF Gated
  <2>3. r = Reply(b, d, host, FALSE)
    BY <1>1, <1>3, <1>4, <1>5, <2>2, RunsPrimitive
  <2> DEFINE no == FALSE  q == Reply(b, d, host, no)
  <2>4. q.status \in {"success", "insufficient_evidence"} /\ (q.evidence => host.found) /\ ~q.asked
    <3>1. no \in BOOLEAN /\ ~no
      OBVIOUS
    <3> HIDE DEF b, no
    <3> QED BY <1>2, <1>4, <2>1, <3>1, SearchAnswers
  <2> QED BY <2>3, <2>4
<1> QED BY <1>5 DEF WellAssembled

LEMMA HintLevelType ==
  ASSUME NEW s \in LearnerStates PROVE HintLevel(s) \in 1..HintMaxLevel
<1>1. s.level \in Nat /\ s.streak \in Nat /\ HintMaxLevel \in Nat \ {0}
  BY LimitAssumption DEF LearnerStates
<1>2. ASSUME NEW streak \in Nat PROVE NextHintLevel(s.level, streak) \in 1..HintMaxLevel
  BY <1>1 DEF NextHintLevel
<1> QED BY <1>1, <1>2 DEF HintLevel

LEMMA ModeType ==
  ASSUME NEW stopped \in BOOLEAN, NEW sufficient \in BOOLEAN, NEW skipped \in BOOLEAN
  PROVE  ReflectMode(stopped, sufficient, skipped) \in {"limit", "stopped", "evidence_gap"}
BY Zenon DEF ReflectMode

\* Every action of the graph, from any state of the learner.
LEMMA DecisionAssembled ==
  ASSUME NEW s \in LearnerStates, NEW skipped \in BOOLEAN, NEW c \in BOOLEAN,
         NEW act \in DispatchedActions
  PROVE  WellAssembled(Decision(act, s, skipped, c), c)
<1> DEFINE d == Decision(act, s, skipped, c)
<1>1. /\ d.action = act /\ d.fields = Always \cup Params(act)
      /\ d.require = (act \in {"teach", "correct"} /\ c)
      /\ d.level = (IF act = "hint" THEN HintLevel(s) ELSE s.level)
      /\ d.sufficient = s.sufficient /\ d.mode = ReflectMode(s.stopped, s.sufficient, skipped)
  BY DEF Decision
<1>2. s.sufficient \in BOOLEAN /\ s.stopped \in BOOLEAN
  BY DEF LearnerStates
<1>f. {"concept", "level", "evidence_sufficient"} \subseteq d.fields /\ Params(act) \subseteq d.fields
  BY <1>1 DEF Always
<1>e. EvidenceBinding.reads = {"params.query", "concept", "params.course_id"}
  BY DEF EvidenceBinding, Bound
<1> HIDE DEF d
<1>3. CASE act = "assess"
  <2>1. Params("assess") = {"params.query", "params.course_id"}
    BY Zenon DEF Params
  <2>2. EvidenceBinding.reads \subseteq d.fields /\ d.require = FALSE
    BY <1>1, <1>3, <1>f, <1>e, <2>1
  <2>3. WellAssembled(d, c)
    BY <1>1, <1>3, <2>2, SearchReplies
  <2> QED BY <2>3 DEF d
<1>4. CASE act = "end"
  <2> DEFINE none == {}
  <2>1. ~NotFound(Text(none), d)
    BY TextIs
  <2>2. WellAssembled(d, c)
    <3>1. ActionBindings[d.action] = Template(Text(none), none) /\ none \subseteq d.fields
          /\ d.action \in DispatchedActions \ {"assess", "teach", "correct"} /\ d.require = FALSE
      BY <1>1, <1>4, Bindings DEF DispatchedActions
    <3> HIDE DEF none
    <3> QED BY <2>1, <3>1, Zenon, TemplateReplies
  <2> QED BY <2>2 DEF d
<1>5. CASE act = "reflect"
  <2>1. "params.mode" \in Params("reflect")
    BY Zenon DEF Params
  <2>2. ValueOf(d, "params.mode") = d.mode
    BY Zenon DEF ValueOf
  <2>a. "params.mode" # "" /\ "params.mode" \in d.fields
    BY <1>5, <1>f, <2>1
  <2>b. d.mode \in {"limit", "stopped", "evidence_gap"}
    BY <1>1, <1>2, ModeType
  <2>3. ~NotFound(Choice("params.mode", {"limit", "stopped", "evidence_gap"}), d)
    BY <2>2, <2>a, <2>b, Zenon, ChoiceIs
  <2>4. ActionBindings[d.action]
          = Template(Choice("params.mode", {"limit", "stopped", "evidence_gap"}), {"params.mode", "concept"})
    BY <1>1, <1>5, Bindings DEF ReflectBinding
  <2>5. {"params.mode", "concept"} \subseteq d.fields /\ d.require = FALSE
    BY <1>1, <1>5, <1>f, <2>1
  <2>6. WellAssembled(d, c)
    BY <1>1, <1>5, <2>3, <2>4, <2>5, TemplateReplies DEF DispatchedActions
  <2> QED BY <2>6 DEF d
<1>6. CASE act = "hint"
  <2> DEFINE texts == {ToString(n) : n \in 1..HintMaxLevel}
  <2>1. ValueOf(d, "level") = ToString(d.level)
    BY Zenon DEF ValueOf
  <2>2. ToString(d.level) \in texts
    BY <1>1, <1>6, HintLevelType
  <2>3. ActionBindings[d.action] = Template(Choice("level", texts), {"level", "concept"})
    BY <1>1, <1>6, Bindings DEF HintBinding
  <2> HIDE DEF texts
  <2>a. "level" # "" /\ "level" \in d.fields
    BY <1>f
  <2>4. ~NotFound(Choice("level", texts), d)
    BY <2>1, <2>2, <2>a, Zenon, ChoiceIs
  <2>5. {"level", "concept"} \subseteq d.fields /\ d.require = FALSE
    BY <1>1, <1>6, <1>f
  <2>6. WellAssembled(d, c)
    BY <1>1, <1>6, <2>3, <2>4, <2>5, TemplateReplies DEF DispatchedActions
  <2> QED BY <2>6 DEF d
<1>7. CASE act = "ask"
  <2> DEFINE concept == {"concept"}
  <2>1. Params("ask") = {"params.learning_goal", "params.user_input", "params.attempt_count"}
    BY Zenon DEF Params
  <2>2. ActionBindings[d.action] = AskBinding
    BY <1>1, <1>7, Bindings
  <2>3. /\ AskBinding.capability = "invoke_skill" /\ AskBinding.evidence = FALSE
        /\ AskBinding.reads = {"concept", "params.learning_goal", "params.user_input", "level",
                               "params.attempt_count"}
        /\ AskBinding.suffix = Choice("evidence_sufficient", {"True", "False"})
        /\ AskBinding.fallback = Text(concept)
    BY DEF AskBinding, Bound
  <2>4. AskBinding.reads \subseteq d.fields /\ concept \subseteq d.fields /\ d.require = FALSE
    BY <1>1, <1>7, <1>f, <2>1, <2>3
  <2>5. ValueOf(d, "evidence_sufficient") \in {"True", "False"}
    BY Zenon DEF ValueOf
  <2>a. "evidence_sufficient" # "" /\ "evidence_sufficient" \in d.fields
    BY <1>f
  <2>c. /\ ~NotFound(Choice("evidence_sufficient", {"True", "False"}), d)
        /\ Missing(Choice("evidence_sufficient", {"True", "False"}), d) = {}
    BY <2>5, <2>a, Zenon, ChoiceIs
  <2>6. ~NotFound(AskBinding.suffix, d) /\ Missing(AskBinding.suffix, d) = {}
    BY <2>3, <2>c
  <2>7. WellAssembled(d, c)
    <3>1. d.action \in DispatchedActions \ {"assess", "teach", "correct"}
      BY <1>1, <1>7 DEF DispatchedActions
    <3> HIDE DEF concept
    <3> QED BY <2>2, <2>3, <2>4, <2>6, <3>1, Zenon, SkillReplies
  <2> QED BY <2>7 DEF d
<1>8. CASE act = "test"
  <2>1. Params("test") = {"params.concept_id", "params.difficulty"}
    BY Zenon DEF Params
  <2>2. ActionBindings[d.action] = TestBinding
    BY <1>1, <1>8, Bindings
  <2>3. /\ TestBinding.capability = "invoke_skill" /\ TestBinding.evidence = FALSE
        /\ TestBinding.reads = {"params.concept_id", "params.difficulty"}
        /\ TestBinding.suffix = NoBlock /\ TestBinding.fallback = Text({})
    BY DEF TestBinding, Bound
  <2>4. TestBinding.reads \subseteq d.fields /\ {} \subseteq d.fields /\ d.require = FALSE
    BY <1>1, <1>8, <1>f, <2>1, <2>3
  <2>5. ~NotFound(TestBinding.suffix, d) /\ Missing(TestBinding.suffix, d) = {}
    BY <2>3, NoBlockIs
  <2>6. WellAssembled(d, c)
    <3>1. d.action \in DispatchedActions \ {"assess", "teach", "correct"}
      BY <1>1, <1>8 DEF DispatchedActions
    <3> QED BY <2>2, <2>3, <2>4, <2>5, <3>1, Zenon, SkillReplies
  <2> QED BY <2>6 DEF d
<1>9. CASE act = "teach"
  <2>1. Params("teach") = {"params.learning_goal", "params.user_input", "params.query",
                           "params.course_id", "params.prior_gap_note"}
    BY Zenon DEF Params
  <2>2. ActionBindings[d.action]
          = Grounded({"concept", "params.learning_goal", "params.user_input", "params.prior_gap_note"}, {})
    BY <1>1, <1>9, Bindings DEF TeachBinding
  <2>3. /\ {"concept", "params.learning_goal", "params.user_input", "params.prior_gap_note"} \subseteq d.fields
        /\ EvidenceBinding.reads \subseteq d.fields /\ d.require = c
    BY <1>1, <1>9, <1>f, <1>e, <2>1
  <2>4. WellAssembled(d, c)
    BY <1>1, <1>9, <2>2, <2>3, GroundedReplies
  <2> QED BY <2>4 DEF d
<1>10. CASE act = "correct"
  <2>1. Params("correct") = {"params.conflicts", "params.user_input", "params.query", "params.course_id"}
    BY Zenon DEF Params
  <2>2. ActionBindings[d.action]
          = Grounded({"concept", "params.conflicts", "params.user_input"}, {"concept", "params.conflicts"})
    BY <1>1, <1>10, Bindings DEF CorrectBinding
  <2>3. /\ {"concept", "params.conflicts", "params.user_input"} \subseteq d.fields
        /\ EvidenceBinding.reads \subseteq d.fields /\ d.require = c
    BY <1>1, <1>10, <1>f, <1>e, <2>1
  <2>4. WellAssembled(d, c)
    BY <1>1, <1>10, <2>2, <2>3, GroundedReplies
  <2> QED BY <2>4 DEF d
<1> QED BY <1>3, <1>4, <1>5, <1>6, <1>7, <1>8, <1>9, <1>10 DEF DispatchedActions

(* The decisions the turns have reached. *)

LEMMA DecidedInit == GroundingInit => ActionsDecided
BY DEF GroundingInit, ActionsDecided

\* No stage leads back to "new".
LEMMA NeverNewAgain ==
  ASSUME GroundingTypeOK, NEW t \in Turns, NEW st, st # "new", Goto(t, st), NEW u \in Turns,
         stage'[u] = "new"
  PROVE  stage[u] = "new" /\ u # t
BY DEF GroundingTypeOK, Goto

LEMMA DecidedKept ==
  ASSUME ActionsDecided, learner' = learner, action' = action,
         \A u \in Turns : stage'[u] = "new" => stage[u] = "new"
  PROVE  ActionsDecided'
BY DEF ActionsDecided

LEMMA AssessDecides ==
  ASSUME GroundingTypeOK, ActionsDecided, NEW t \in Turns, AssessNode(t)
  PROVE  ActionsDecided'
<1>1. PICK s \in Situations :
        \E a : /\ action' = [action EXCEPT ![t] = Route(s, a)]
               /\ \E l : learner' = [learner EXCEPT ![t] = l]
  BY DEF AssessNode
<1>2. PICK a, l : /\ action' = [action EXCEPT ![t] = Route(s, a)]
                  /\ learner' = [learner EXCEPT ![t] = l]
  BY <1>1
<1>3. \E st \in {"node", "done"} : Goto(t, st)
  BY DEF AssessNode, Say
<1>4. action'[t] \in Actions \cup {"end"}
  BY <1>2, RouteType DEF GroundingTypeOK, Actions
<1>5. ASSUME NEW u \in Turns
      PROVE  /\ stage'[u] = "new" => learner'[u] = None
             /\ learner'[u] # None => action'[u] \in Actions \cup {"end"}
  <2>1. stage'[u] = "new" => stage[u] = "new" /\ u # t
    BY <1>3, NeverNewAgain
  <2>2. CASE u = t
    BY <1>4, <2>1, <2>2
  <2>3. CASE u # t
    <3>1. learner'[u] = learner[u] /\ action'[u] = action[u]
      BY <1>2, <2>3 DEF GroundingTypeOK
    <3> QED BY <2>1, <3>1 DEF ActionsDecided
  <2> QED BY <2>2, <2>3
<1> QED BY <1>5 DEF ActionsDecided

LEMMA BaselineDecides ==
  ASSUME GroundingTypeOK, ActionsDecided, NEW t \in Turns, Baseline(t)
  PROVE  ActionsDecided'
<1>1. /\ action' = [action EXCEPT ![t] = "baseline"] /\ learner' = learner /\ stage[t] = "new"
      /\ \E st \in {"generate", "done"} : Goto(t, st)
  BY DEF Baseline, Say
<1>2. learner[t] = None
  BY <1>1 DEF ActionsDecided
<1>3. ASSUME NEW u \in Turns
      PROVE  /\ stage'[u] = "new" => learner'[u] = None
             /\ learner'[u] # None => action'[u] \in Actions \cup {"end"}
  <2>1. stage'[u] = "new" => stage[u] = "new"
    BY <1>1, NeverNewAgain
  <2>2. learner[u] # None => action'[u] = action[u]
    BY <1>1, <1>2 DEF GroundingTypeOK
  <2> QED BY <1>1, <2>1, <2>2 DEF ActionsDecided
<1> QED BY <1>3 DEF ActionsDecided

\* Every other step of a turn says or asks something, for what is decided.
LEMMA OthersDecide ==
  ASSUME GroundingTypeOK, ActionsDecided, NEW t \in Turns,
         \/ GroundedNode(t) \/ AskNode(t) \/ TemplateNode(t) \/ Generated(t) \/ Asked(t)
         \/ FellBack(t) \/ BaselineAsked(t) \/ TurnEnds(t)
  PROVE  ActionsDecided'
<1>1. learner' = learner /\ action' = action /\ \E st \in {"generate", "done"} : Goto(t, st)
  BY DEF GroundedNode, AskNode, TemplateNode, Generated, Asked, FellBack, BaselineAsked, TurnEnds, Say
<1>2. \A u \in Turns : stage'[u] = "new" => stage[u] = "new"
  BY <1>1, NeverNewAgain
<1> QED BY <1>1, <1>2, DecidedKept

LEMMA DecidedStep == GroundingTypeOK /\ ActionsDecided /\ [GroundingNext]_groundingVars => ActionsDecided'
<1> SUFFICES ASSUME GroundingTypeOK, ActionsDecided, [GroundingNext]_groundingVars
             PROVE  ActionsDecided'
  OBVIOUS
<1>1. CASE CorpusGrows \/ UNCHANGED groundingVars
  BY <1>1, DecidedKept DEF CorpusGrows, groundingVars
<1>2. ASSUME NEW t \in Turns,
             \/ AssessNode(t) \/ TeachNode(t) \/ CorrectNode(t) \/ AskNode(t)
             \/ HintNode(t) \/ ReflectNode(t) \/ TestNode(t)
             \/ Generated(t) \/ Asked(t) \/ FellBack(t)
             \/ Baseline(t) \/ BaselineAsked(t) \/ TurnEnds(t)
      PROVE  ActionsDecided'
  BY <1>2, AssessDecides, BaselineDecides, OthersDecide
     DEF TeachNode, CorrectNode, HintNode, ReflectNode, TestNode
<1> QED BY <1>1, <1>2 DEF GroundingNext

LEMMA DecidedHolds == GroundingTypeOK /\ ActionsDecided => Assembled
<1> SUFFICES ASSUME GroundingTypeOK, ActionsDecided, NEW t \in Turns, learner[t] # None,
                    NEW sent \in {"assess", action[t]}
             PROVE  LET s == learner[t] c == condition[t].constrained IN
                    WellAssembled(Decision(sent, s, s.stopped \/ AtLimit(s), c), c)
  BY DEF Assembled
<1>1. learner[t] \in LearnerStates /\ condition[t].constrained \in BOOLEAN
  BY GroundingAssumption DEF GroundingTypeOK
<1>2. sent \in DispatchedActions
  BY DEF ActionsDecided, DispatchedActions, Actions
<1>3. PICK skipped \in BOOLEAN : skipped = (learner[t].stopped \/ AtLimit(learner[t]))
  OBVIOUS
<1>4. WellAssembled(Decision(sent, learner[t], skipped, condition[t].constrained), condition[t].constrained)
  BY <1>1, <1>2, DecisionAssembled
<1> QED BY <1>3, <1>4

(* The library, over the one connection that all threads share: what is not   *)
(* committed belongs to the thread that has the lock, and what another thread's *)
(* audit row commits of it is cut.                                             *)

LEMMA InsertsInOrder ==
  /\ \A k \in 1..5 : Inserts[k] \in Parts /\ Inserts[k] \notin {"copy", "begin", "commit", Idle}
  /\ \A j, k \in 1..5 : Inserts[j] = Inserts[k] => j = k
  /\ \A p \in Parts : \E k \in 1..5 : p = Inserts[k]
<1>1. \A k \in 1..5 : k \in {1, 2, 3, 4, 5}
  OBVIOUS
<1>2. /\ Inserts[1] = "row" /\ Inserts[2] = "document" /\ Inserts[3] = "chunks"
      /\ Inserts[4] = "import" /\ Inserts[5] = "index"
  BY DEF Inserts
<1> QED BY <1>1, <1>2 DEF Parts, Idle

\* A thread that is not in the middle of an import has no insert behind it.
LEMMA NothingInserted ==
  ASSUME NEW k \in 1..5, NEW p, p \notin Parts \/ p = "row"
  PROVE  ~(\E j \in k+1..5 : p = Inserts[j])
<1>1. Inserts[1] = "row" /\ 1 \in 1..5
  BY DEF Inserts
<1>2. \A j \in k+1..5 : j \in 1..5 /\ j # 1
  OBVIOUS
<1> QED BY <1>1, <1>2, InsertsInOrder

LEMMA LibraryParts ==
  ASSUME LibraryInd, NEW t \in Threads
  PROVE  /\ ThreadInd(t) /\ stored \subseteq table /\ LibraryTypeOK
         /\ pc[t] \in ImportStages /\ rid[t] \in Ids \cup {Nobody}
         /\ pc[t] # Idle => rid[t] \in Minted /\ rid[t] \in Ids
         /\ InIngest(t) => pc[t] # Idle
         /\ Rows(stored) \subseteq Rows(table) /\ Rows(table) \subseteq Minted
         /\ t # Nobody /\ (lock = t => lock # Nobody)
<1>1. /\ ThreadInd(t) /\ stored \subseteq table /\ LibraryTypeOK
      /\ \A f \in table : f[1] \in Minted
  BY DEF LibraryInd
<1>2. Rows(stored) \subseteq Rows(table) /\ Rows(table) \subseteq Minted
  BY <1>1 DEF Rows
<1>3. InIngest(t) => pc[t] # Idle
  BY DEF InIngest, Parts, Idle
<1>4. t # Nobody
  BY LibraryAssumption DEF Threads
<1> QED BY <1>1, <1>2, <1>3, <1>4 DEF LibraryTypeOK, ThreadInd

\* What the lock says of what is not committed.
LEMMA LockParts ==
  ASSUME LibraryInd
  PROVE  /\ lock = Nobody => table = stored
         /\ \A i \in Rows(table) \ Rows(stored) :
              lock \in Threads /\ rid[lock] = i /\ pc[lock] \in Parts \cup {"commit"}
         /\ \A s, t \in Threads : pc[s] \in Parts \cup {"commit", "set_active"} /\ lock \in {t, Nobody}
                                    => s = t
<1>1. stored \subseteq table /\ \A f \in table \ stored : Uncommitted(f)
  BY DEF LibraryInd
<1>2. lock = Nobody => table = stored
  BY <1>1 DEF Uncommitted
<1>3. ASSUME NEW i \in Rows(table) \ Rows(stored)
      PROVE  lock \in Threads /\ rid[lock] = i /\ pc[lock] \in Parts \cup {"commit"}
  <2>1. <<i, "row">> \in table \ stored
    BY <1>3 DEF Rows
  <2>2. Uncommitted(<<i, "row">>)
    BY <1>1, <2>1
  <2>3. lock # Nobody /\ rid[lock] = i /\ pc[lock] # "set_active"
    BY <2>2 DEF Uncommitted
  <2>4. lock \in Threads
    BY <2>3 DEF LibraryInd, LibraryTypeOK
  <2> QED BY <2>3, <2>4 DEF LibraryInd, ThreadInd
<1>4. ASSUME NEW s \in Threads, NEW t \in Threads, pc[s] \in Parts \cup {"commit", "set_active"},
             lock \in {t, Nobody}
      PROVE  s = t
  BY <1>4, LibraryParts DEF ThreadInd
<1> QED BY <1>2, <1>3, <1>4

\* What the steps of one thread leave of the others.
LEMMA OtherThreads ==
  ASSUME LibraryInd, NEW t \in Threads, NEW s \in Threads, s # t,
         pc'[s] = pc[s], rid'[s] = rid[s], lock' = s <=> lock = s,
         profile' = profile, Minted \subseteq Minted', \A i \in Minted : meta'[i] = meta[i],
         \A u \in Threads : u # t => pc'[u] = pc[u] /\ rid'[u] = rid[u],
         Importing(t)' => (Importing(t) /\ rid'[t] = rid[t]) \/ rid'[t] \notin Minted,
         \A i \in Rows(table)' : i \in Rows(table) \/ (Importing(t) /\ i = rid[t]),
         Importing(s) /\ rid[s] \in Rows(stored)' => rid[s] \in cut',
         \A i \in files : i \in files' \/ (Importing(t) /\ i = rid[t]),
         table \subseteq table' \/ pc[s] \notin Parts \cup {"commit"}
  PROVE  ThreadInd(s)'
<1>1. /\ ThreadInd(s) /\ ThreadInd(t)
      /\ pc[s] # Idle => rid[s] \in Minted
      /\ pc[t] # Idle => rid[t] \in Minted
  BY LibraryParts
<1>2. Importing(s)' <=> Importing(s)
  BY DEF Importing, InIngest
<1>3. InIngest(s)' <=> InIngest(s)
  BY DEF InIngest
<1>4. Importing(s) /\ Importing(t) => rid[s] # rid[t]
  BY <1>1 DEF ThreadInd
<1>5. pc[s] \in {"copy", "begin", "row"} => Importing(s)
  BY DEF Importing, InIngest, Parts
<1>6. Importing(s) => pc[s] # Idle
  BY DEF Importing, InIngest, Parts, Idle
<1>7. lock' = s <=> pc'[s] \in Parts \cup {"commit", "set_active"}
  BY <1>1 DEF ThreadInd
<1>8. pc'[s] \in {"activate", "set_active"} => s = Loop
  BY <1>1 DEF ThreadInd
<1>9. pc'[s] # Idle => rid'[s] \in Minted'
  BY <1>1
<1>10. pc'[s] \in {"copy", "begin", "row"} => rid'[s] \notin Rows(table)'
  BY <1>1, <1>4, <1>5 DEF ThreadInd
<1>11. ASSUME Importing(s)
       PROVE  /\ meta'[rid[s]].profile = profile'
              /\ \A u \in Threads : rid'[u] = rid[s] /\ Importing(u)' => u = s
  <2>1. meta'[rid[s]].profile = profile'
    BY <1>1, <1>6, <1>11 DEF ThreadInd
  <2>2. ASSUME NEW u \in Threads, rid'[u] = rid[s], Importing(u)' PROVE u = s
    <3>1. CASE u = t
      BY <1>1, <1>4, <1>6, <1>11, <2>2, <3>1
    <3>2. CASE u # t
      <4>1. rid[u] = rid[s] /\ Importing(u)
        BY <2>2, <3>2 DEF Importing, InIngest
      <4> QED BY <4>1, <1>1, <1>11 DEF ThreadInd
    <3> QED BY <3>1, <3>2
  <2> QED BY <2>1, <2>2
<1>12. InIngest(s) => rid[s] \in files'
  BY <1>1, <1>4 DEF ThreadInd, Importing
<1>13. ASSUME NEW k \in 1..5, (\E j \in k+1..5 : pc[s] = Inserts[j]) \/ pc[s] = "commit"
       PROVE  <<rid[s], Inserts[k]>> \in table'
  <2>1. pc[s] \in Parts \cup {"commit"}
    BY <1>13, NothingInserted
  <2>2. <<rid[s], Inserts[k]>> \in table
    BY <1>1, <1>13 DEF ThreadInd
  <2> QED BY <2>1, <2>2
<1>14. Importing(s)' => (rid'[s] \in Rows(stored)' => rid'[s] \in cut')
  BY <1>2
<1> QED BY <1>2, <1>3, <1>7, <1>8, <1>9, <1>10, <1>11, <1>12, <1>13, <1>14 DEF ThreadInd

\* A thread that imports nothing.
LEMMA NotImporting ==
  ASSUME NEW t \in Threads, pc[t] \notin {"copy", "begin", "commit"} \cup Parts,
         lock = t <=> pc[t] = "set_active",
         pc[t] \in {"activate", "set_active"} => t = Loop,
         pc[t] # Idle => rid[t] \in Minted
  PROVE  ThreadInd(t)
<1>1. \A k \in 1..5 : ~(\E j \in k+1..5 : pc[t] = Inserts[j])
  BY NothingInserted
<1>2. ~Importing(t) /\ ~InIngest(t)
  BY DEF Importing, InIngest
<1>3. pc[t] \notin {"copy", "begin", "row"}
  BY DEF Parts
<1> QED BY <1>1, <1>2, <1>3 DEF ThreadInd

LEMMA NotImportingNext ==
  (\A t \in Threads : /\ pc[t] \notin {"copy", "begin", "commit"} \cup Parts
                      /\ lock = t <=> pc[t] = "set_active"
                      /\ pc[t] \in {"activate", "set_active"} => t = Loop
                      /\ pc[t] # Idle => rid[t] \in Minted
                      => ThreadInd(t))'
<1>1. \A t \in Threads : /\ pc[t] \notin {"copy", "begin", "commit"} \cup Parts
                         /\ lock = t <=> pc[t] = "set_active"
                         /\ pc[t] \in {"activate", "set_active"} => t = Loop
                         /\ pc[t] # Idle => rid[t] \in Minted
                         => ThreadInd(t)
  BY NotImporting
<1> QED BY <1>1, PTL

\* What has been shown stays.
LEMMA CitedKept ==
  ASSUME LibraryInd, cited # Nobody, cited' = cited, NEW t \in Threads,
         Minted \subseteq Minted', \A i \in Minted : meta'[i] = meta[i],
         \A s \in Threads : s # t => pc'[s] = pc[s] /\ rid'[s] = rid[s],
         rid'[t] = cited[2] => /\ pc'[t] \notin {"copy", "begin", "row"}
                               /\ InIngest(t)' => InIngest(t) /\ rid[t] = cited[2],
         \/ table' = stored
         \/ table \subseteq table' /\ (cited[2] \in Rows(table)' => cited[2] \in Rows(table)),
         stored' = stored \/ stored' = table,
         cited[2] \in cut /\ ~cited[4] => cited[2] \in cut'
  PROVE  CitedInd'
<1> DEFINE i == cited[2]
<1>1. /\ i \in Minted /\ Visible(i, cited[1]) /\ Reliable(meta[i].content)
      /\ \A s \in Threads : rid[s] = i =>
           /\ pc[s] \notin {"copy", "begin", "row"}
           /\ InIngest(s) => cited[4]
      /\ i \in Rows(stored) \/ cited[4]
      /\ i \in Rows(table) => <<i, "active">> \in table
      /\ i \in Rows(stored) => <<i, "active">> \in stored
      /\ (cited[4] \/ i \notin cut) /\ cited[3] # Nobody => meta[i].profile = cited[3]
  BY DEF LibraryInd, CitedInd
<1>2. Rows(stored) \subseteq Rows(table)
  BY LibraryParts
<1>3. i \in Minted' /\ meta'[i] = meta[i]
  BY <1>1
<1>4. Visible(i, cited[1])' /\ Reliable(meta[i].content)'
  BY <1>1, <1>3 DEF Visible, Reliable
<1>5. ASSUME NEW s \in Threads, rid'[s] = i
      PROVE  pc'[s] \notin {"copy", "begin", "row"} /\ (InIngest(s)' => cited[4])
  <2>1. CASE s = t
    BY <1>1, <1>5, <2>1
  <2>2. CASE s # t
    <3>1. rid[s] = i /\ pc'[s] = pc[s]
      BY <1>5, <2>2
    <3> QED BY <1>1, <3>1 DEF InIngest
  <2> QED BY <2>1, <2>2
<1>6. i \in Rows(stored)' \/ cited[4]
  BY <1>1, <1>2 DEF Rows
<1>7. i \in Rows(table)' => <<i, "active">> \in table'
  BY <1>1 DEF Rows
<1>8. i \in Rows(stored)' => <<i, "active">> \in stored'
  BY <1>1 DEF Rows
<1>9. (cited[4] \/ i \notin cut') /\ cited[3] # Nobody => meta'[i].profile = cited[3]
  BY <1>1, <1>3
<1> QED BY <1>3, <1>4, <1>5, <1>6, <1>7, <1>8, <1>9 DEF CitedInd

\* The invariant after a step of one thread.
LEMMA LibraryFrame ==
  ASSUME LibraryInd, NEW t \in Threads, LibraryTypeOK', ThreadInd(t)',
         \A s \in Threads : s # t => ThreadInd(s)',
         stored' \subseteq table', \A f \in table' : f[1] \in Minted',
         \A f \in table' \ stored' : Uncommitted(f)',
         \A i \in Rows(stored)' \ cut' : Whole(stored, i)' /\ i \in files',
         cited' # Nobody => CitedInd'
  PROVE  LibraryInd'
<1>1. \A s \in Threads : ThreadInd(s)'
  OBVIOUS
<1> QED BY <1>1 DEF LibraryInd

\* A step that writes nothing, of a thread that does not hold the lock.
LEMMA NothingWritten ==
  ASSUME LibraryInd, NEW t \in Threads, lock # t,
         UNCHANGED <<table, stored, lock, profile, cut, cited>>, LibraryTypeOK', ThreadInd(t)',
         Minted \subseteq Minted', \A i \in Minted : meta'[i] = meta[i], files \subseteq files',
         \A s \in Threads : s # t => pc'[s] = pc[s] /\ rid'[s] = rid[s],
         Importing(t)' => (pc[t] \in {"copy", "begin"} /\ rid'[t] = rid[t]) \/ rid'[t] \notin Minted
  PROVE  LibraryInd'
<1>0. /\ stored \subseteq table /\ \A f \in table : f[1] \in Minted
      /\ \A f \in table \ stored : Uncommitted(f)
      /\ \A i \in Rows(stored) \ cut : Whole(stored, i) /\ i \in files
      /\ \A s \in Threads : ThreadInd(s)
  BY DEF LibraryInd
<1>1. Rows(table)' = Rows(table) /\ Rows(stored)' = Rows(stored)
  BY DEF Rows
<1>2. \A s \in Threads : s # t => ThreadInd(s)'
  <2> SUFFICES ASSUME NEW s \in Threads, s # t PROVE ThreadInd(s)'
    OBVIOUS
  <2>1. Importing(s) /\ rid[s] \in Rows(stored) => rid[s] \in cut
    BY <1>0 DEF ThreadInd
  <2>2. Importing(t)' => (Importing(t) /\ rid'[t] = rid[t]) \/ rid'[t] \notin Minted
    BY DEF Importing, InIngest
  <2>3. \A i \in Rows(table)' : i \in Rows(table)
    BY <1>1
  <2>4. lock' = s <=> lock = s
    OBVIOUS
  <2>5. Importing(s) /\ rid[s] \in Rows(stored)' => rid[s] \in cut'
    BY <1>1, <2>1
  <2> QED BY <2>2, <2>3, <2>4, <2>5, OtherThreads
<1>3. \A f \in table' \ stored' : Uncommitted(f)'
  <2> SUFFICES ASSUME NEW f \in table \ stored PROVE Uncommitted(f)'
    OBVIOUS
  <2>1. Uncommitted(f)
    BY <1>0
  <2>2. lock \in Threads
    BY <2>1 DEF Uncommitted, LibraryInd, LibraryTypeOK
  <2> QED BY <1>1, <2>1, <2>2 DEF Uncommitted
<1>4. \A i \in Rows(stored)' \ cut' : Whole(stored, i)' /\ i \in files'
  BY <1>0, <1>1 DEF Whole
<1>5. ASSUME cited # Nobody PROVE CitedInd'
  <2>1. rid'[t] = cited[2] => ~Importing(t)'
    BY <1>5 DEF LibraryInd, CitedInd
  <2>2. ~Importing(t)' => pc'[t] \notin {"copy", "begin", "row"} /\ ~InIngest(t)'
    BY DEF Importing, InIngest, Parts
  <2>3. cited[2] \in cut /\ ~cited[4] => cited[2] \in cut'
    OBVIOUS
  <2> QED BY <1>1, <1>5, <2>1, <2>2, <2>3, CitedKept
<1> QED BY <1>0, <1>2, <1>3, <1>4, <1>5, LibraryFrame

LEMMA LibraryInitInd == LibraryInit => LibraryInd
<1> SUFFICES ASSUME LibraryInit PROVE LibraryInd
  OBVIOUS
<1>1. Minted = {} /\ Minted = 1..Cardinality(Minted)
  BY FS_EmptySet DEF LibraryInit, Minted
<1>2. LibraryTypeOK
  BY <1>1 DEF LibraryInit, LibraryTypeOK, ImportStages
<1>3. ASSUME NEW t \in Threads PROVE ThreadInd(t)
  <2>1. pc[t] = Idle /\ lock = Nobody /\ t # Nobody
    BY LibraryAssumption DEF LibraryInit, Threads
  <2>2. Idle \notin Parts \cup {"copy", "begin", "commit", "activate", "set_active"}
    BY DEF Idle, Parts
  <2> QED BY <2>1, <2>2, NotImporting
<1>4. table = {} /\ stored = {} /\ cited = Nobody
  BY DEF LibraryInit
<1> QED BY <1>2, <1>3, <1>4 DEF LibraryInd, Rows

LEMMA MoveType ==
  ASSUME LibraryTypeOK, NEW t \in Threads, NEW next \in ImportStages, MoveTo(t, next)
  PROVE  /\ pc' \in [Threads -> ImportStages] /\ pc'[t] = next
         /\ \A s \in Threads : s # t => pc'[s] = pc[s]
BY DEF LibraryTypeOK, MoveTo

LEMMA DoneType ==
  ASSUME LibraryTypeOK, NEW t \in Threads, Done(t)
  PROVE  /\ pc' \in [Threads -> ImportStages] /\ pc'[t] = Idle
         /\ rid' \in [Threads -> Ids \cup {Nobody}]
         /\ \A s \in Threads : s # t => pc'[s] = pc[s] /\ rid'[s] = rid[s]
BY DEF LibraryTypeOK, Done, MoveTo, ImportStages

\* A thread that is done has nothing under way.
LEMMA DoneInd ==
  ASSUME NEW t \in Threads, pc'[t] = Idle, lock' # t
  PROVE  ThreadInd(t)' /\ ~Importing(t)' /\ ~InIngest(t)'
<1>1. Idle \notin Parts \cup {"copy", "begin", "commit", "activate", "set_active"}
  BY DEF Idle, Parts
<1>2. ThreadInd(t)'
  BY <1>1, NotImportingNext
<1> QED BY <1>1, <1>2 DEF Importing, InIngest

LEMMA LatestType ==
  ASSUME LibraryInd, NEW c, Latest(c) # Nobody
  PROVE  Latest(c) \in Minted
<1>1. SameContent(c) \subseteq Minted /\ SameContent(c) # {} /\ Latest(c) = Max(SameContent(c))
  BY DEF Latest, SameContent, Rows, LibraryInd
<1>2. SameContent(c) \subseteq 1..MaxResources
  BY <1>1 DEF LibraryInd, LibraryTypeOK, Ids
<1> QED BY <1>1, <1>2, MaxOf, LibraryAssumption

LEMMA MintedGrows ==
  ASSUME LibraryTypeOK, NEW new, new = Cardinality(Minted) + 1
  PROVE  /\ new \notin Minted
         /\ Minted \cup {new} = 1..Cardinality(Minted \cup {new})
<1> DEFINE n == Cardinality(Minted)
<1>1. Minted = 1..n /\ Minted \subseteq 1..MaxResources /\ MaxResources \in Nat
  BY LibraryAssumption DEF LibraryTypeOK, Ids
<1>2. IsFiniteSet(Minted)
  <2>1. 1 \in Int /\ MaxResources \in Int
    BY <1>1
  <2>2. IsFiniteSet(1..MaxResources)
    BY <2>1, FS_Interval
  <2>3. Minted \in SUBSET (1..MaxResources)
    BY <1>1
  <2> QED BY <2>2, <2>3, FS_Subset
<1>3. n \in Nat
  BY <1>2, FS_CardinalityType
<1> HIDE DEF n
<1>4. new = n + 1
  BY DEF n
<1>5. Minted \cup {new} = 1..(n + 1) /\ new \notin Minted
  BY <1>1, <1>3, <1>4
<1>6. Cardinality(1..(n + 1)) = n + 1
  BY <1>3, FS_Interval
<1> QED BY <1>5, <1>6

LEMMA ImportStep ==
  ASSUME LibraryInd, NEW t \in Threads, NEW q \in ImportRequests, ImportPath(t, q)
  PROVE  LibraryInd'
<1>0. /\ ThreadInd(t) /\ LibraryTypeOK /\ pc[t] = Idle
      /\ Rows(stored) \subseteq Rows(table) /\ Rows(table) \subseteq Minted
      /\ UNCHANGED <<table, stored, inTx, lock, files, profile, cited, cut>>
  BY LibraryParts DEF ImportPath, IngestBytes
<1>1. lock # t
  BY <1>0 DEF ThreadInd, Parts, Idle
<1> DEFINE old == Latest(q.content)
           new == Cardinality(Minted) + 1
<1>2. CASE old # Nobody /\ ~q.newVersion
  <2>1. /\ rid' = [rid EXCEPT ![t] = old] /\ MoveTo(t, "record_duplicate") /\ meta' = meta
    BY <1>2 DEF ImportPath, IngestBytes
  <2>2. old \in Minted /\ old \in Ids
    BY <1>0, <1>2, LatestType DEF LibraryTypeOK
  <2>3. /\ pc' \in [Threads -> ImportStages] /\ pc'[t] = "record_duplicate"
        /\ \A s \in Threads : s # t => pc'[s] = pc[s]
    BY <1>0, <2>1, MoveType DEF ImportStages
  <2>4. /\ rid' \in [Threads -> Ids \cup {Nobody}] /\ rid'[t] = old
        /\ \A s \in Threads : s # t => rid'[s] = rid[s]
    BY <1>0, <2>1, <2>2 DEF LibraryTypeOK
  <2>5. Minted' = Minted
    BY <2>1 DEF Minted
  <2> HIDE DEF old
  <2>6. LibraryTypeOK'
    BY <1>0, <2>1, <2>3, <2>4, <2>5 DEF LibraryTypeOK
  <2>7. ThreadInd(t)' /\ ~Importing(t)'
    <3>1. pc'[t] \notin Parts \cup {"copy", "begin", "commit", "activate", "set_active"}
      BY <2>3 DEF Parts
    <3> QED BY <3>1, <1>0, <1>1, <2>2, <2>4, <2>5, NotImportingNext DEF Importing, InIngest
  <2> QED BY <1>0, <1>1, <2>1, <2>3, <2>4, <2>5, <2>6, <2>7, NothingWritten
<1>3. CASE ~(old # Nobody /\ ~q.newVersion)
  <2>1. /\ new \in Ids /\ rid' = [rid EXCEPT ![t] = new] /\ MoveTo(t, "copy")
        /\ meta' = [i \in Minted \cup {new} |-> IF i \in Minted THEN meta[i] ELSE
                  [owner |-> q.owner, content |-> q.content, public |-> q.public,
                   activate |-> q.activate, profile |-> profile]]
    BY <1>3 DEF ImportPath, IngestBytes
  <2>2. /\ Minted' = Minted \cup {new} /\ \A i \in Minted : meta'[i] = meta[i]
        /\ new \notin Minted => meta'[new].profile = profile
    BY <2>1 DEF Minted
  <2>4. new \notin Minted /\ Minted' = 1..Cardinality(Minted') /\ Minted' \subseteq Ids
    BY <1>0, <2>1, <2>2, MintedGrows DEF LibraryTypeOK
  <2>5. /\ pc' \in [Threads -> ImportStages] /\ pc'[t] = "copy"
        /\ \A s \in Threads : s # t => pc'[s] = pc[s]
    BY <1>0, <2>1, MoveType DEF ImportStages
  <2>6. /\ rid' \in [Threads -> Ids \cup {Nobody}] /\ rid'[t] = new
        /\ \A s \in Threads : s # t => rid'[s] = rid[s]
    BY <1>0, <2>1 DEF LibraryTypeOK
  <2> HIDE DEF old, new
  <2>7. \A i \in Minted' : meta'[i].profile \in Profiles
    BY <1>0, <2>2, <2>4 DEF LibraryTypeOK
  <2>8. LibraryTypeOK'
    BY <1>0, <2>2, <2>4, <2>5, <2>6, <2>7 DEF LibraryTypeOK
  <2>9. ThreadInd(t)'
    <3>1. \A k \in 1..5 : ~(\E j \in k+1..5 : "copy" = Inserts[j])
      BY NothingInserted DEF Parts
    <3>2. new \notin Rows(stored)' /\ new \notin Rows(table)' /\ new \in Minted'
      BY <1>0, <2>2, <2>4 DEF Rows
    <3>3. \A s \in Threads : rid'[s] = new /\ Importing(s)' => s = t
      <4> SUFFICES ASSUME NEW s \in Threads, rid'[s] = new, Importing(s)', s # t PROVE FALSE
        OBVIOUS
      <4>1. pc[s] # Idle /\ rid[s] = new
        BY <2>5, <2>6 DEF Importing, InIngest, Idle, Parts
      <4> QED BY <4>1, <2>4, LibraryParts
    <3>4. ~InIngest(t)' /\ pc'[t] \notin Parts \cup {"commit", "set_active", "activate"} /\ pc'[t] # Idle
      BY <2>5 DEF InIngest, Parts, Idle
    <3> QED BY <1>0, <1>1, <2>2, <2>4, <2>5, <2>6, <3>1, <3>2, <3>3, <3>4 DEF ThreadInd
  <2> QED BY <1>0, <1>1, <2>2, <2>4, <2>5, <2>6, <2>8, <2>9, NothingWritten
<1> QED BY <1>2, <1>3

LEMMA CopyStep ==
  ASSUME LibraryInd, NEW t \in Threads, CopyFile(t)
  PROVE  LibraryInd'
<1>0. /\ ThreadInd(t) /\ LibraryTypeOK /\ pc[t] = "copy"
      /\ UNCHANGED <<table, stored, inTx, lock, meta, profile, cited, cut>>
      /\ Minted' = Minted /\ rid[t] \in Minted
      /\ Rows(table)' = Rows(table) /\ Rows(stored)' = Rows(stored)
  BY LibraryParts DEF CopyFile, Minted, Idle, Rows
<1>1. lock # t /\ Importing(t)
  BY <1>0 DEF ThreadInd, Parts, Importing
<1>2. CASE files' = files /\ Done(t)
  <2>1. LibraryTypeOK'
    BY <1>0, <1>2, DoneType DEF LibraryTypeOK
  <2>2. ThreadInd(t)' /\ ~Importing(t)'
    BY <1>0, <1>1, <1>2, DoneType, DoneInd
  <2> QED BY <1>0, <1>1, <1>2, <2>1, <2>2, DoneType, NothingWritten
<1>3. CASE files' = files \cup {rid[t]} /\ MoveTo(t, "begin") /\ rid' = rid
  <2>1. /\ pc' \in [Threads -> ImportStages] /\ pc'[t] = "begin"
        /\ \A s \in Threads : s # t => pc'[s] = pc[s]
    BY <1>0, <1>3, MoveType DEF ImportStages
  <2>2. LibraryTypeOK'
    BY <1>0, <1>3, <2>1 DEF LibraryTypeOK
  <2>3. ThreadInd(t)'
    <3>1. \A k \in 1..5 : ~(\E j \in k+1..5 : "begin" = Inserts[j])
      BY NothingInserted DEF Parts
    <3>2. \A s \in Threads : rid'[s] = rid'[t] /\ Importing(s)' => s = t
      <4> SUFFICES ASSUME NEW s \in Threads, rid[s] = rid[t], Importing(s)', s # t PROVE FALSE
        BY <1>3
      <4>1. Importing(s)
        BY <2>1 DEF Importing, InIngest
      <4> QED BY <4>1, <1>0, <1>1 DEF ThreadInd
    <3>3. pc'[t] \notin Parts \cup {"commit", "set_active", "activate"}
      BY <2>1 DEF Parts
    <3> QED BY <1>0, <1>1, <1>3, <2>1, <3>1, <3>2, <3>3 DEF ThreadInd
  <2> QED BY <1>0, <1>1, <1>3, <2>1, <2>2, <2>3, NothingWritten
<1> QED BY <1>2, <1>3 DEF CopyFile

LEMMA RecordStep ==
  ASSUME LibraryInd, NEW t \in Threads, RecordOperation(t)
  PROVE  LibraryInd'
<1>0. /\ ThreadInd(t) /\ LibraryTypeOK
      /\ pc[t] \in {"record_duplicate", "record_activate"}
      /\ UNCHANGED <<table, stored, lock, files, meta, rid, profile, cited, cut>>
      /\ Minted' = Minted /\ inTx' = TRUE /\ MoveTo(t, "commit_record")
      /\ rid[t] \in Minted
  BY LibraryParts DEF RecordOperation, Minted, Idle
<1>1. /\ pc' \in [Threads -> ImportStages] /\ pc'[t] = "commit_record"
      /\ \A s \in Threads : s # t => pc'[s] = pc[s]
  BY <1>0, MoveType DEF ImportStages
<1>2. LibraryTypeOK'
  BY <1>0, <1>1 DEF LibraryTypeOK
<1>3. lock # t
  BY <1>0 DEF ThreadInd, Parts
<1>4. ThreadInd(t)' /\ ~Importing(t)'
  <2>1. pc'[t] \notin Parts \cup {"copy", "begin", "commit", "activate", "set_active"}
    BY <1>1 DEF Parts
  <2> QED BY <2>1, <1>0, <1>3, NotImportingNext DEF Importing, InIngest
<1> QED BY <1>0, <1>1, <1>2, <1>3, <1>4, NothingWritten

LEMMA RecordFailsStep ==
  ASSUME LibraryInd, NEW t \in Threads, RecordFails(t)
  PROVE  LibraryInd'
<1>0. /\ ThreadInd(t) /\ LibraryTypeOK
      /\ pc[t] \in {"activate", "record_duplicate", "record_activate"}
      /\ UNCHANGED <<table, stored, lock, files, meta, profile, cited, cut>>
      /\ Minted' = Minted /\ inTx' = TRUE /\ Done(t)
  BY LibraryParts DEF RecordFails, Minted
<1>1. LibraryTypeOK'
  BY <1>0, DoneType DEF LibraryTypeOK
<1>2. lock # t
  BY <1>0 DEF ThreadInd, Parts
<1>3. ThreadInd(t)' /\ ~Importing(t)'
  BY <1>0, <1>2, DoneType, DoneInd
<1> QED BY <1>0, <1>1, <1>2, <1>3, DoneType, NothingWritten

LEMMA ActivateStep ==
  ASSUME LibraryInd, NEW i \in Ids, NEW who \in Learners, Activate(i, who)
  PROVE  LibraryInd'
<1> DEFINE t == Loop
<1>0. /\ t \in Threads /\ ThreadInd(t) /\ LibraryTypeOK /\ pc[t] = Idle
      /\ UNCHANGED <<table, stored, inTx, lock, files, meta, profile, cited, cut>>
      /\ Minted' = Minted /\ i \in Minted /\ rid' = [rid EXCEPT ![t] = i]
      /\ MoveTo(t, "activate")
  <2>1. Loop \in Threads
    BY DEF Threads
  <2> QED BY <2>1, LibraryParts DEF Activate, Minted
<1>1. /\ pc' \in [Threads -> ImportStages] /\ pc'[t] = "activate"
      /\ \A s \in Threads : s # t => pc'[s] = pc[s]
  BY <1>0, MoveType DEF ImportStages
<1>2. /\ rid' \in [Threads -> Ids \cup {Nobody}] /\ rid'[t] = i
      /\ \A s \in Threads : s # t => rid'[s] = rid[s]
  BY <1>0 DEF LibraryTypeOK
<1>3. LibraryTypeOK'
  BY <1>0, <1>1, <1>2 DEF LibraryTypeOK
<1>4. lock # t
  BY <1>0 DEF ThreadInd, Parts, Idle
<1>5. ThreadInd(t)' /\ ~Importing(t)'
  <2>1. pc'[t] \notin Parts \cup {"copy", "begin", "commit", "set_active"}
    BY <1>1 DEF Parts
  <2> QED BY <2>1, <1>0, <1>2, <1>4, NotImportingNext DEF Importing, InIngest
<1> QED BY <1>0, <1>1, <1>2, <1>3, <1>4, <1>5, NothingWritten

LEMMA BeginsStep ==
  ASSUME LibraryInd, NEW t \in Threads, IngestBegins(t)
  PROVE  LibraryInd'
<1>0. /\ ThreadInd(t) /\ LibraryTypeOK /\ pc[t] = "begin" /\ lock = Nobody /\ table = stored
      /\ UNCHANGED <<table, stored, files, meta, rid, profile, cited, cut>>
      /\ lock' = t /\ inTx' = TRUE /\ MoveTo(t, "row")
      /\ Minted' = Minted /\ rid[t] \in Minted
      /\ Rows(table)' = Rows(table) /\ Rows(stored)' = Rows(stored)
  BY LibraryParts, LockParts DEF IngestBegins, Minted, Idle, Rows
<1>1. /\ pc' \in [Threads -> ImportStages] /\ pc'[t] = "row"
      /\ \A s \in Threads : s # t => pc'[s] = pc[s]
  BY <1>0, MoveType DEF ImportStages, Parts
<1>2. LibraryTypeOK'
  BY <1>0, <1>1 DEF LibraryTypeOK
<1>3. Importing(t) /\ InIngest(t)
  BY <1>0 DEF Importing, InIngest
<1>4. ThreadInd(t)'
  <2>1. \A k \in 1..5 : ~(\E j \in k+1..5 : "row" = Inserts[j])
    BY NothingInserted
  <2>2. \A s \in Threads : rid'[s] = rid'[t] /\ Importing(s)' => s = t
    <3> SUFFICES ASSUME NEW s \in Threads, rid[s] = rid[t], Importing(s)', s # t PROVE FALSE
      BY <1>0
    <3>1. Importing(s)
      BY <1>1 DEF Importing, InIngest
    <3> QED BY <3>1, <1>0, <1>3 DEF ThreadInd
  <2>3. pc'[t] \in Parts \cup {"commit", "set_active"} /\ pc'[t] \notin {"commit", "set_active", "activate"}
    BY <1>1 DEF Parts
  <2> QED BY <1>0, <1>1, <1>3, <2>1, <2>2, <2>3 DEF ThreadInd
<1>5. ASSUME NEW s \in Threads, s # t PROVE ThreadInd(s)'
  <2>1. lock' = s <=> lock = s
    BY <1>0, <1>5, LibraryParts
  <2>2. Importing(s) /\ rid[s] \in Rows(stored)' => rid[s] \in cut'
    BY <1>0, LibraryParts DEF ThreadInd
  <2>3. Importing(t)' => Importing(t) /\ rid'[t] = rid[t]
    BY <1>0, <1>3
  <2> QED BY <1>0, <1>1, <1>5, <2>1, <2>2, <2>3, OtherThreads
<1>6. /\ \A f \in table' : f[1] \in Minted'
      /\ \A i \in Rows(stored)' \ cut' : Whole(stored, i)' /\ i \in files'
  BY <1>0 DEF LibraryInd, Whole
<1>7. ASSUME cited # Nobody PROVE CitedInd'
  <2>1. rid'[t] # cited[2]
    BY <1>0, <1>7 DEF LibraryInd, CitedInd
  <2> QED BY <1>0, <1>1, <1>7, <2>1, CitedKept
<1> QED BY <1>0, <1>2, <1>4, <1>5, <1>6, <1>7, LibraryFrame

LEMMA InsertsStep ==
  ASSUME LibraryInd, NEW t \in Threads, IngestInserts(t)
  PROVE  LibraryInd'
<1>0. /\ ThreadInd(t) /\ LibraryTypeOK /\ pc[t] \in Parts
      /\ UNCHANGED <<stored, lock, files, meta, rid, profile, cited, cut>>
      /\ table' = table \cup Inserted(rid[t], pc[t]) /\ inTx' = TRUE
      /\ Minted' = Minted /\ rid[t] \in Minted /\ rid[t] \in Ids
      /\ stored \subseteq table /\ Rows(stored) \subseteq Rows(table)
      /\ Rows(stored)' = Rows(stored)
  BY LibraryParts DEF IngestInserts, Minted, Idle, Parts, Rows
<1>1. lock = t /\ Importing(t) /\ InIngest(t)
  BY <1>0 DEF ThreadInd, Importing, InIngest
<1>2. PICK k \in 1..5 : Inserts[k] = pc[t]
  BY <1>0, InsertsInOrder
<1> DEFINE next == IF k = 5 THEN "commit" ELSE Inserts[k + 1]
<1>3. (CHOOSE n \in 1..5 : Inserts[n] = pc[t]) = k
  BY <1>2, InsertsInOrder
<1>4. MoveTo(t, next)
  BY <1>3 DEF IngestInserts
<1>5. next \in ImportStages /\ next \in Parts \cup {"commit"} /\ next # "row"
  <2>1. k # 5 => k + 1 \in 1..5 /\ k + 1 # 1
    BY <1>2
  <2>2. Inserts[1] = "row" /\ 1 \in 1..5
    BY DEF Inserts
  <2> QED BY <2>1, <2>2, InsertsInOrder DEF ImportStages
<1>6. \A j \in 1..5 : (\E m \in j+1..5 : next = Inserts[m]) \/ next = "commit" => j <= k
  <2> SUFFICES ASSUME NEW j \in 1..5, (\E m \in j+1..5 : next = Inserts[m]) \/ next = "commit"
               PROVE  j <= k
    OBVIOUS
  <2>1. CASE k = 5
    BY <2>1
  <2>2. CASE k # 5
    <3>1. next = Inserts[k + 1] /\ k + 1 \in 1..5
      BY <2>2
    <3>2. next # "commit"
      BY <3>1, InsertsInOrder
    <3>3. PICK m \in j+1..5 : next = Inserts[m]
      BY <3>2
    <3>4. m \in 1..5
      OBVIOUS
    <3>5. m = k + 1
      BY <3>1, <3>3, <3>4, InsertsInOrder
    <3> QED BY <3>3, <3>5
  <2> QED BY <2>1, <2>2
<1> HIDE DEF next
<1>7. /\ pc' \in [Threads -> ImportStages] /\ pc'[t] = next
      /\ \A s \in Threads : s # t => pc'[s] = pc[s]
  BY <1>0, <1>4, <1>5, MoveType
<1>8. /\ Inserted(rid[t], pc[t]) \subseteq Facts
      /\ \A f \in Inserted(rid[t], pc[t]) :
           f[1] = rid[t] /\ (f[2] = "active" => pc[t] = "row") /\ (f[2] = "row" => pc[t] = "row")
  BY <1>0 DEF Inserted, Facts, Parts
<1>9. LibraryTypeOK'
  BY <1>0, <1>7, <1>8 DEF LibraryTypeOK
<1>10. \A i \in Rows(table)' : i \in Rows(table) \/ (i = rid[t] /\ pc[t] = "row")
  BY <1>0, <1>8 DEF Rows
<1>11. ThreadInd(t)'
  <2>1. ASSUME NEW j \in 1..5, (\E m \in j+1..5 : pc'[t] = Inserts[m]) \/ pc'[t] = "commit"
        PROVE  <<rid'[t], Inserts[j]>> \in table'
    <3>1. j <= k
      BY <1>6, <1>7, <2>1
    <3>2. CASE j = k
      BY <1>0, <1>2, <3>2 DEF Inserted
    <3>3. CASE j # k
      <4>1. k \in j+1..5
        BY <3>1, <3>3
      <4>2. <<rid[t], Inserts[j]>> \in table
        BY <1>0, <1>2, <4>1 DEF ThreadInd
      <4> QED BY <1>0, <4>2
    <3> QED BY <3>2, <3>3
  <2>2. \A s \in Threads : rid'[s] = rid'[t] /\ Importing(s)' => s = t
    <3> SUFFICES ASSUME NEW s \in Threads, rid[s] = rid[t], Importing(s)', s # t PROVE FALSE
      BY <1>0
    <3>1. Importing(s)
      BY <1>7 DEF Importing, InIngest
    <3> QED BY <3>1, <1>0, <1>1 DEF ThreadInd
  <2>3. /\ pc'[t] \in Parts \cup {"commit", "set_active"} /\ pc'[t] \notin {"copy", "begin", "row"}
        /\ pc'[t] \notin {"set_active", "activate"}
    BY <1>5, <1>7 DEF Parts
  <2>4. /\ meta'[rid'[t]].profile = profile' /\ (rid'[t] \in Rows(stored)' => rid'[t] \in cut')
        /\ rid'[t] \in files' /\ rid'[t] \in Minted' /\ lock' = t
    BY <1>0, <1>1 DEF ThreadInd
  <2> QED BY <2>1, <2>2, <2>3, <2>4 DEF ThreadInd
<1>12. ASSUME NEW s \in Threads, s # t PROVE ThreadInd(s)'
  <2>1. Importing(s) /\ rid[s] \in Rows(stored)' => rid[s] \in cut'
    BY <1>0, LibraryParts DEF ThreadInd
  <2>2. Importing(t)' => Importing(t) /\ rid'[t] = rid[t]
    BY <1>0, <1>1
  <2>3. lock' = s <=> lock = s
    BY <1>0
  <2> QED BY <1>0, <1>1, <1>7, <1>10, <1>12, <2>1, <2>2, <2>3, OtherThreads
<1>13. ASSUME NEW f \in table' \ stored' PROVE Uncommitted(f)'
  <2>1. lock' # Nobody /\ rid'[lock'] = rid[t] /\ pc'[lock'] # "set_active"
    BY <1>0, <1>1, <1>5, <1>7, LibraryParts DEF Parts
  <2>2. CASE f \in table
    <3>1. Uncommitted(f) /\ pc[lock] # "set_active"
      BY <1>0, <1>1, <2>2 DEF LibraryInd, Parts
    <3> QED BY <1>0, <1>1, <2>1, <3>1 DEF Uncommitted
  <2>3. CASE f \in Inserted(rid[t], pc[t])
    <3>1. pc[t] = "row" => rid[t] \notin Rows(stored)
      BY <1>0 DEF ThreadInd
    <3> QED BY <1>0, <1>8, <2>1, <2>3, <3>1 DEF Uncommitted
  <2> QED BY <1>0, <2>2, <2>3
<1>14. /\ \A f \in table' : f[1] \in Minted'
       /\ \A i \in Rows(stored)' \ cut' : Whole(stored, i)' /\ i \in files'
       /\ stored' \subseteq table'
  BY <1>0, <1>8 DEF LibraryInd, Whole
<1>15. ASSUME cited # Nobody PROVE CitedInd'
  <2>1. rid[t] = cited[2] => pc[t] # "row"
    BY <1>15 DEF LibraryInd, CitedInd
  <2>2. cited[2] \in Rows(table)' => cited[2] \in Rows(table)
    BY <1>10, <2>1
  <2>3. /\ pc'[t] \notin {"copy", "begin", "row"}
        /\ InIngest(t)' => InIngest(t)
    BY <1>1, <1>5, <1>7 DEF Parts
  <2>4. table \subseteq table'
    BY <1>0
  <2> QED BY <1>0, <1>7, <1>15, <2>2, <2>3, <2>4, CitedKept
<1> QED BY <1>9, <1>11, <1>12, <1>13, <1>14, <1>15, <1>0, LibraryFrame

LEMMA WholeRow ==
  ASSUME NEW t \in Threads, ThreadInd(t), pc[t] = "commit"
  PROVE  Whole(table, rid[t])
<1> SUFFICES ASSUME NEW p \in Parts PROVE <<rid[t], p>> \in table
  BY DEF Whole
<1>1. PICK k \in 1..5 : p = Inserts[k]
  BY InsertsInOrder
<1> QED BY <1>1 DEF ThreadInd

LEMMA CommitsStep ==
  ASSUME LibraryInd, NEW t \in Threads, IngestCommits(t)
  PROVE  LibraryInd'
<1>0. /\ ThreadInd(t) /\ LibraryTypeOK /\ pc[t] = "commit"
      /\ UNCHANGED <<table, files, meta, profile, cited>>
      /\ stored' = table /\ inTx' = FALSE /\ lock' = Nobody /\ cut' = cut \ {rid[t]} /\ Done(t)
      /\ Minted' = Minted /\ rid[t] \in Minted
      /\ stored \subseteq table /\ t # Nobody
      /\ Rows(stored)' = Rows(table) /\ Rows(table)' = Rows(table)
  BY LibraryParts DEF IngestCommits, CommitTx, Minted, Idle, Rows
<1>1. lock = t /\ Importing(t) /\ InIngest(t)
  BY <1>0 DEF ThreadInd, Importing, InIngest
<1>2. LibraryTypeOK'
  BY <1>0, DoneType DEF LibraryTypeOK
<1>3. ThreadInd(t)' /\ ~Importing(t)' /\ ~InIngest(t)'
  BY <1>0, DoneType, DoneInd
<1>4. \A i \in Rows(table) : i = rid[t] \/ i \in Rows(stored)
  BY <1>1, LockParts
<1>5. ASSUME NEW s \in Threads, s # t PROVE ThreadInd(s)'
  <2>1. Importing(s) /\ rid[s] \in Rows(stored)' => rid[s] \in cut'
    <3> SUFFICES ASSUME Importing(s), rid[s] \in Rows(table) PROVE rid[s] \in cut'
      BY <1>0
    <3>1. rid[s] # rid[t]
      BY <1>0, <1>1, <1>5 DEF ThreadInd
    <3>2. rid[s] \in cut
      BY <3>1, <1>4, LibraryParts DEF ThreadInd
    <3> QED BY <1>0, <3>1, <3>2
  <2>2. lock' = s <=> lock = s
    BY <1>0, <1>1, <1>5, LibraryParts
  <2> QED BY <1>0, <1>3, <1>5, <2>1, <2>2, DoneType, OtherThreads
<1>6. ASSUME NEW i \in Rows(stored)' \ cut' PROVE Whole(stored, i)' /\ i \in files'
  <2>1. CASE i = rid[t]
    <3>1. Whole(table, i) /\ i \in files
      BY <1>0, <1>1, <2>1, WholeRow DEF ThreadInd
    <3> QED BY <1>0, <3>1 DEF Whole
  <2>2. CASE i # rid[t]
    <3>1. i \in Rows(stored) \ cut
      BY <1>0, <1>4, <2>2
    <3>2. Whole(stored, i) /\ i \in files
      BY <3>1 DEF LibraryInd
    <3> QED BY <1>0, <3>2 DEF Whole
  <2> QED BY <2>1, <2>2
<1>7. ASSUME cited # Nobody PROVE CitedInd'
  <2>1. cited[2] = rid[t] => cited[4]
    BY <1>1, <1>7 DEF LibraryInd, CitedInd
  <2>2. /\ pc'[t] \notin {"copy", "begin", "row"}
        /\ cited[2] \in cut /\ ~cited[4] => cited[2] \in cut'
    BY <1>0, <2>1, DoneType DEF Idle
  <2> QED BY <1>0, <1>3, <1>7, <2>2, DoneType, CitedKept
<1>8. (\A f \in table' : f[1] \in Minted') /\ stored' \subseteq table'
  BY <1>0 DEF LibraryInd
<1>9. \A f \in table' \ stored' : Uncommitted(f)'
  <2> SUFFICES ASSUME NEW f \in table' \ stored' PROVE FALSE
    OBVIOUS
  <2> QED BY <1>0
<1> QED BY <1>0, <1>2, <1>3, <1>5, <1>6, <1>7, <1>8, <1>9, LibraryFrame

LEMMA FailsStep ==
  ASSUME LibraryInd, NEW t \in Threads, IngestFails(t)
  PROVE  LibraryInd'
<1>0. /\ ThreadInd(t) /\ LibraryTypeOK /\ InIngest(t)
      /\ UNCHANGED <<stored, meta, profile, cited, cut>>
      /\ table' = stored /\ inTx' = FALSE /\ lock' = Nobody /\ files' = files \ {rid[t]} /\ Done(t)
      /\ Minted' = Minted /\ rid[t] \in Minted
      /\ stored \subseteq table /\ t # Nobody /\ lock \in {t, Nobody}
      /\ Rows(table)' = Rows(stored) /\ Rows(stored)' = Rows(stored)
      /\ Rows(stored) \subseteq Rows(table)
  BY LibraryParts DEF IngestFails, RollbackTx, Minted, Idle, Rows
<1>1. Importing(t)
  BY <1>0 DEF Importing
<1>2. LibraryTypeOK'
  BY <1>0, DoneType DEF LibraryTypeOK
<1>3. ThreadInd(t)' /\ ~Importing(t)' /\ ~InIngest(t)'
  BY <1>0, DoneType, DoneInd
<1>4. ASSUME NEW s \in Threads, s # t PROVE ThreadInd(s)'
  <2>1. Importing(s) /\ rid[s] \in Rows(stored)' => rid[s] \in cut'
    BY <1>0, LibraryParts DEF ThreadInd
  <2>2. lock' = s <=> lock = s
    BY <1>0, <1>4, LibraryParts
  <2>3. pc[s] \notin Parts \cup {"commit"}
    BY <1>0, <1>4, LockParts
  <2>4. \A i \in files : i \in files' \/ (Importing(t) /\ i = rid[t])
    BY <1>0, <1>1
  <2> QED BY <1>0, <1>3, <1>4, <2>1, <2>2, <2>3, <2>4, DoneType, OtherThreads
<1>5. ASSUME NEW i \in Rows(stored)' \ cut' PROVE Whole(stored, i)' /\ i \in files'
  <2>1. i # rid[t]
    BY <1>0, <1>1 DEF ThreadInd
  <2>2. Whole(stored, i) /\ i \in files
    BY <1>0 DEF LibraryInd
  <2> QED BY <1>0, <2>1, <2>2 DEF Whole
<1>6. ASSUME cited # Nobody PROVE CitedInd'
  <2>1. pc'[t] \notin {"copy", "begin", "row"}
    BY <1>0, DoneType DEF Idle
  <2> QED BY <1>0, <1>3, <1>6, <2>1, DoneType, CitedKept
<1>7. (\A f \in table' : f[1] \in Minted') /\ stored' \subseteq table'
  BY <1>0 DEF LibraryInd
<1>8. \A f \in table' \ stored' : Uncommitted(f)'
  <2> SUFFICES ASSUME NEW f \in table' \ stored' PROVE FALSE
    OBVIOUS
  <2> QED BY <1>0
<1> QED BY <1>0, <1>2, <1>3, <1>4, <1>5, <1>6, <1>7, <1>8, LibraryFrame

LEMMA ActivateSetsStep ==
  ASSUME LibraryInd, NEW t \in Threads, ActivateSets(t)
  PROVE  LibraryInd'
<1> DEFINE new == {<<rid[t], "active">>} \cap (Rows(table) \X {"active"})
<1>0. /\ ThreadInd(t) /\ LibraryTypeOK /\ pc[t] = "activate" /\ lock = Nobody /\ table = stored
      /\ UNCHANGED <<stored, files, meta, rid, profile, cited, cut>>
      /\ lock' = t /\ inTx' = TRUE /\ MoveTo(t, "set_active")
      /\ table' = table \cup new
      /\ Minted' = Minted /\ rid[t] \in Minted /\ rid[t] \in Ids /\ t # Nobody
      /\ Rows(stored)' = Rows(stored) /\ Rows(stored) \subseteq Rows(table)
  BY LibraryParts, LockParts DEF ActivateSets, Minted, Idle, Rows
<1>1. \A f \in new : f = <<rid[t], "active">> /\ f \in Facts /\ f[1] = rid[t] /\ f[2] = "active"
  BY <1>0 DEF Facts
<1>2. Rows(table)' = Rows(table)
  BY <1>0 DEF Rows
<1>3. /\ pc' \in [Threads -> ImportStages] /\ pc'[t] = "set_active"
      /\ \A s \in Threads : s # t => pc'[s] = pc[s]
  BY <1>0, MoveType DEF ImportStages
<1> HIDE DEF new
<1>4. LibraryTypeOK'
  BY <1>0, <1>1, <1>3 DEF LibraryTypeOK
<1>5. ThreadInd(t)' /\ ~Importing(t)' /\ ~InIngest(t)'
  <2>1. t = Loop
    BY <1>0 DEF ThreadInd
  <2>2. pc'[t] \notin Parts \cup {"copy", "begin", "commit"}
    BY <1>3 DEF Parts
  <2> QED BY <2>1, <2>2, <1>0, <1>3, NotImportingNext DEF Importing, InIngest
<1>6. ASSUME NEW s \in Threads, s # t PROVE ThreadInd(s)'
  <2>1. Importing(s) /\ rid[s] \in Rows(stored)' => rid[s] \in cut'
    BY <1>0, LibraryParts DEF ThreadInd
  <2>2. lock' = s <=> lock = s
    BY <1>0, <1>6, LibraryParts
  <2> QED BY <1>0, <1>2, <1>3, <1>5, <1>6, <2>1, <2>2, OtherThreads
<1>7. ASSUME NEW f \in table' \ stored' PROVE Uncommitted(f)'
  <2>1. f \in new
    BY <1>0
  <2> QED BY <1>0, <1>1, <1>3, <2>1 DEF Uncommitted
<1>8. /\ \A f \in table' : f[1] \in Minted'
      /\ \A i \in Rows(stored)' \ cut' : Whole(stored, i)' /\ i \in files'
      /\ stored' \subseteq table'
  BY <1>0, <1>1 DEF LibraryInd, Whole
<1>9. ASSUME cited # Nobody PROVE CitedInd'
  <2>1. pc'[t] \notin {"copy", "begin", "row"} /\ table \subseteq table'
    BY <1>0, <1>3
  <2> QED BY <1>0, <1>2, <1>3, <1>5, <1>9, <2>1, CitedKept
<1> QED BY <1>0, <1>4, <1>5, <1>6, <1>7, <1>8, <1>9, LibraryFrame

LEMMA ActivatedStep ==
  ASSUME LibraryInd, NEW t \in Threads, ActivateCommits(t)
  PROVE  LibraryInd'
<1>0. /\ ThreadInd(t) /\ LibraryTypeOK /\ pc[t] = "set_active"
      /\ UNCHANGED <<table, files, meta, profile, cited, cut>>
      /\ stored' = table /\ inTx' = FALSE /\ lock' = Nobody
      /\ (MoveTo(t, "record_activate") /\ rid' = rid) \/ Done(t)
      /\ Minted' = Minted /\ rid[t] \in Minted
      /\ stored \subseteq table /\ t # Nobody
      /\ Rows(stored)' = Rows(table) /\ Rows(table)' = Rows(table) /\ Rows(stored) \subseteq Rows(table)
  BY LibraryParts DEF ActivateCommits, CommitTx, Minted, Idle, Rows
<1>1. lock = t
  BY <1>0 DEF ThreadInd
<1>2. Rows(table) = Rows(stored)
  <2>1. pc[t] \notin Parts \cup {"commit"}
    BY <1>0 DEF Parts
  <2> QED BY <2>1, <1>0, <1>1, LockParts
<1>3. /\ pc' \in [Threads -> ImportStages] /\ rid' \in [Threads -> Ids \cup {Nobody}]
      /\ pc'[t] \in {Idle, "record_activate"} /\ (pc'[t] # Idle => rid'[t] = rid[t])
      /\ \A s \in Threads : s # t => pc'[s] = pc[s] /\ rid'[s] = rid[s]
  <2>1. CASE Done(t)
    BY <1>0, <2>1, DoneType
  <2>2. CASE MoveTo(t, "record_activate") /\ rid' = rid
    BY <1>0, <2>2, MoveType DEF ImportStages, LibraryTypeOK
  <2> QED BY <1>0, <2>1, <2>2
<1>4. LibraryTypeOK'
  BY <1>0, <1>3 DEF LibraryTypeOK
<1>5. pc'[t] \notin {"copy", "begin", "commit", "activate", "set_active"} \cup Parts
  BY <1>3 DEF Idle, Parts
<1>6. ThreadInd(t)' /\ ~Importing(t)' /\ ~InIngest(t)'
  BY <1>0, <1>3, <1>5, NotImportingNext DEF Importing, InIngest
<1>7. ASSUME NEW s \in Threads, s # t PROVE ThreadInd(s)'
  <2>1. Importing(s) /\ rid[s] \in Rows(stored)' => rid[s] \in cut'
    BY <1>0, <1>2, LibraryParts DEF ThreadInd
  <2>2. lock' = s <=> lock = s
    BY <1>0, <1>1, <1>7, LibraryParts
  <2> QED BY <1>0, <1>3, <1>6, <1>7, <2>1, <2>2, OtherThreads
<1>8. /\ \A f \in table' : f[1] \in Minted'
      /\ stored' \subseteq table'
      /\ \A f \in table' \ stored' : FALSE
  BY <1>0 DEF LibraryInd
<1>9. ASSUME NEW i \in Rows(stored)' \ cut' PROVE Whole(stored, i)' /\ i \in files'
  <2>1. i \in Rows(stored) \ cut
    BY <1>0, <1>2
  <2>2. Whole(stored, i) /\ i \in files
    BY <2>1 DEF LibraryInd
  <2> QED BY <1>0, <2>2 DEF Whole
<1>10. ASSUME cited # Nobody PROVE CitedInd'
  <2>1. pc'[t] \notin {"copy", "begin", "row"}
    BY <1>5 DEF Parts
  <2> QED BY <1>0, <1>3, <1>6, <1>10, <2>1, CitedKept
<1> QED BY <1>0, <1>4, <1>6, <1>7, <1>8, <1>9, <1>10, LibraryFrame

LEMMA CommitRecordStep ==
  ASSUME LibraryInd, NEW t \in Threads, CommitRecord(t)
  PROVE  LibraryInd'
<1>0. /\ ThreadInd(t) /\ LibraryTypeOK /\ pc[t] = "commit_record"
      /\ UNCHANGED <<table, lock, files, meta, profile, cited>>
      /\ stored' = table /\ inTx' = FALSE /\ Done(t)
      /\ cut' = cut \cup {i \in Rows(table) : UnderWay(i)}
      /\ Minted' = Minted
      /\ stored \subseteq table /\ Rows(table) \subseteq Minted
      /\ Rows(stored)' = Rows(table) /\ Rows(table)' = Rows(table)
  BY LibraryParts DEF CommitRecord, CommitTx, Minted, Rows
<1>1. lock # t
  BY <1>0 DEF ThreadInd, Parts
<1>2. LibraryTypeOK'
  BY <1>0, DoneType DEF LibraryTypeOK
<1>3. ThreadInd(t)' /\ ~Importing(t)' /\ ~InIngest(t)'
  BY <1>0, <1>1, DoneType, DoneInd
<1>4. ASSUME NEW s \in Threads, s # t PROVE ThreadInd(s)'
  <2>1. Importing(s) /\ rid[s] \in Rows(stored)' => rid[s] \in cut'
    <3> SUFFICES ASSUME Importing(s), rid[s] \in Rows(table) PROVE rid[s] \in cut'
      BY <1>0
    <3>1. InIngest(s)
      BY LibraryParts DEF ThreadInd, Importing
    <3> QED BY <1>0, <3>1 DEF UnderWay
  <2>2. lock' = s <=> lock = s
    BY <1>0
  <2> QED BY <1>0, <1>3, <1>4, <2>1, <2>2, DoneType, OtherThreads
<1>5. ASSUME NEW i \in Rows(stored)' \ cut' PROVE Whole(stored, i)' /\ i \in files'
  <2>1. i \in Rows(table) /\ i \notin cut /\ ~UnderWay(i)
    BY <1>0
  <2>2. i \in Rows(stored)
    <3>1. ASSUME i \notin Rows(stored) PROVE FALSE
      <4>1. lock \in Threads /\ rid[lock] = i /\ pc[lock] \in Parts \cup {"commit"}
        BY <2>1, <3>1, LockParts
      <4> QED BY <2>1, <4>1 DEF UnderWay, InIngest
    <3> QED BY <3>1
  <2>3. Whole(stored, i) /\ i \in files
    BY <2>1, <2>2 DEF LibraryInd
  <2> QED BY <1>0, <2>3 DEF Whole
<1>6. ASSUME cited # Nobody PROVE CitedInd'
  <2>1. pc'[t] \notin {"copy", "begin", "row"}
    BY <1>0, DoneType DEF Idle
  <2> QED BY <1>0, <1>3, <1>6, <2>1, DoneType, CitedKept
<1>7. /\ \A f \in table' : f[1] \in Minted'
      /\ stored' \subseteq table'
      /\ \A f \in table' \ stored' : FALSE
  BY <1>0 DEF LibraryInd
<1> QED BY <1>0, <1>2, <1>3, <1>4, <1>5, <1>6, <1>7, LibraryFrame

LEMMA SearchStep ==
  ASSUME LibraryInd, NEW who \in Learners, NEW strategy \in Strategies,
         SearchLibrary(who, strategy)
  PROVE  LibraryInd'
<1>0. /\ UNCHANGED <<table, stored, inTx, lock, files, meta, pc, rid, profile, cut>>
      /\ pc[Loop] = Idle /\ Loop \in Threads /\ LibraryTypeOK /\ Minted' = Minted
      /\ stored \subseteq table /\ Rows(table) \subseteq Minted /\ Rows(table) \subseteq Ids
      /\ Rows(stored)' = Rows(stored) /\ Rows(table)' = Rows(table)
  BY LibraryParts DEF SearchLibrary, Threads, Minted, Rows
<1>1. PICK i \in Candidates(who, strategy) :
        cited' = <<who, i, IF strategy = "dense" THEN profile ELSE Nobody, UnderWay(i)>>
  BY DEF SearchLibrary
<1>2. /\ i \in Eligible(who)
      /\ strategy = "dense" => Compatible(i)
  BY <1>1 DEF Candidates, DenseHits, HybridRank, LexicalHits
<1>3. /\ i \in Rows(table) /\ <<i, "active">> \in table
      /\ Visible(i, who) /\ Reliable(meta[i].content)
  BY <1>2 DEF Eligible
<1>4. /\ UnderWay(i) \in BOOLEAN
      /\ (IF strategy = "dense" THEN profile ELSE Nobody) \in Profiles \cup {Nobody}
      /\ i \in Ids
  BY <1>0, <1>3 DEF UnderWay, LibraryTypeOK
<1>5. /\ cited'[1] = who /\ cited'[2] = i /\ (cited'[4] <=> UnderWay(i))
      /\ cited'[3] # Nobody => strategy = "dense" /\ cited'[3] = profile
      /\ cited' \in Learners \X Ids \X (Profiles \cup {Nobody}) \X BOOLEAN
  BY <1>1, <1>4
<1>6. LibraryTypeOK'
  BY <1>0, <1>5 DEF LibraryTypeOK
<1>7. \A t \in Threads : ThreadInd(t)'
  <2> SUFFICES ASSUME NEW t \in Threads PROVE ThreadInd(t)'
    OBVIOUS
  <2>1. ThreadInd(t)
    BY LibraryParts
  <2>2. (InIngest(t)' <=> InIngest(t)) /\ \A s \in Threads : Importing(s)' <=> Importing(s)
    BY <1>0 DEF Importing, InIngest
  <2> QED BY <1>0, <2>1, <2>2 DEF ThreadInd
<1>8. ASSUME NEW f \in table' \ stored' PROVE Uncommitted(f)'
  BY <1>0 DEF LibraryInd, Uncommitted
<1>9. /\ \A f \in table' : f[1] \in Minted'
      /\ \A j \in Rows(stored)' \ cut' : Whole(stored, j)' /\ j \in files'
      /\ stored' \subseteq table'
  BY <1>0 DEF LibraryInd, Whole
<1>10. CitedInd'
  <2>1. /\ i \in Minted' /\ Visible(i, who)' /\ Reliable(meta[i].content)'
    BY <1>0, <1>3 DEF Visible, Reliable
  <2>2. ASSUME NEW t \in Threads, rid'[t] = i
        PROVE  pc'[t] \notin {"copy", "begin", "row"} /\ (InIngest(t)' => UnderWay(i))
    <3>1. pc[t] \notin {"copy", "begin", "row"}
      BY <1>0, <1>3, <2>2, LibraryParts DEF ThreadInd
    <3>2. InIngest(t) => UnderWay(i)
      BY <1>0, <2>2 DEF UnderWay
    <3> QED BY <1>0, <3>1, <3>2 DEF InIngest
  <2>3. i \in Rows(stored) \/ UnderWay(i)
    <3>1. ASSUME i \notin Rows(stored) PROVE UnderWay(i)
      <4>1. lock \in Threads /\ rid[lock] = i /\ pc[lock] \in Parts \cup {"commit"}
        BY <1>3, <3>1, LockParts
      <4> QED BY <4>1 DEF UnderWay, InIngest
    <3> QED BY <3>1
  <2>4. i \in Rows(stored) => <<i, "active">> \in stored
    <3>1. ASSUME i \in Rows(stored), <<i, "active">> \notin stored PROVE FALSE
      <4>1. Uncommitted(<<i, "active">>)
        BY <1>3, <3>1 DEF LibraryInd
      <4>2. lock # Nobody /\ pc[lock] = "set_active"
        BY <3>1, <4>1 DEF Uncommitted
      <4>3. lock \in Threads /\ lock = Loop
        BY <1>0, <4>2, LibraryParts DEF LibraryTypeOK, ThreadInd
      <4> QED BY <1>0, <4>2, <4>3 DEF Idle
    <3> QED BY <3>1
  <2>5. ASSUME UnderWay(i) \/ i \notin cut, strategy = "dense" PROVE meta[i].profile = profile
    <3>1. CASE UnderWay(i)
      <4>1. PICK t \in Threads : rid[t] = i /\ InIngest(t)
        BY <3>1 DEF UnderWay
      <4> QED BY <4>1, LibraryParts DEF ThreadInd, Importing
    <3>2. CASE ~UnderWay(i)
      <4>1. i \in Rows(stored) \ cut
        BY <2>3, <2>5, <3>2
      <4>2. <<i, "index">> \in table
        BY <1>0, <4>1 DEF LibraryInd, Whole, Parts
      <4> QED BY <1>2, <2>5, <4>2 DEF Compatible
    <3> QED BY <3>1, <3>2
  <2> QED BY <1>0, <1>3, <1>5, <2>1, <2>2, <2>3, <2>4, <2>5 DEF CitedInd
<1>11. LibraryInd'
  BY <1>6, <1>7, <1>8, <1>9, <1>10 DEF LibraryInd
<1> QED BY <1>11

LEMMA RestartStep ==
  ASSUME LibraryInd, Restart
  PROVE  LibraryInd'
<1>0. /\ table' = stored /\ inTx' = FALSE /\ lock' = Nobody /\ profile' \in Profiles
      /\ pc' = [t \in Threads |-> Idle] /\ rid' = [t \in Threads |-> Nobody]
      /\ UNCHANGED <<stored, files, meta, cited, cut>>
      /\ Minted' = Minted /\ LibraryTypeOK
      /\ Rows(stored)' = Rows(stored) /\ Rows(table)' = Rows(stored)
      /\ stored \subseteq table
  BY DEF Restart, Minted, Rows, LibraryInd
<1>1. LibraryTypeOK'
  BY <1>0 DEF LibraryTypeOK, ImportStages
<1>2. ASSUME NEW t \in Threads PROVE ThreadInd(t)' /\ pc'[t] = Idle /\ rid'[t] = Nobody
  <2>1. pc'[t] = Idle /\ lock' # t /\ rid'[t] = Nobody
    BY <1>0, LibraryParts
  <2> QED BY <2>1, DoneInd
<1>3. /\ \A f \in table' : f[1] \in Minted'
      /\ stored' \subseteq table'
      /\ \A f \in table' \ stored' : FALSE
      /\ \A i \in Rows(stored)' \ cut' : Whole(stored, i)' /\ i \in files'
  BY <1>0 DEF LibraryInd, Whole
<1>4. ASSUME cited # Nobody PROVE CitedInd'
  <2>1. CitedInd
    BY <1>4 DEF LibraryInd
  <2>2. \A t \in Threads : pc'[t] \notin {"copy", "begin", "row"} /\ ~InIngest(t)'
    BY <1>2 DEF InIngest, Idle, Parts
  <2> QED BY <1>0, <2>1, <2>2 DEF CitedInd, Visible, Reliable
<1> QED BY <1>0, <1>1, <1>2, <1>3, <1>4 DEF LibraryInd

LEMMA LibraryUnchanged ==
  ASSUME LibraryInd, UNCHANGED libraryVars
  PROVE  LibraryInd'
<1>0. /\ UNCHANGED <<table, stored, inTx, lock, files, meta, pc, rid, profile, cited, cut>>
      /\ Minted' = Minted /\ Rows(stored)' = Rows(stored) /\ Rows(table)' = Rows(table)
  BY DEF libraryVars, Minted, Rows
<1>1. LibraryTypeOK'
  BY <1>0 DEF LibraryInd, LibraryTypeOK
<1>2. ASSUME NEW t \in Threads PROVE ThreadInd(t)'
  <2>1. ThreadInd(t)
    BY LibraryParts
  <2>2. (InIngest(t)' <=> InIngest(t)) /\ \A s \in Threads : Importing(s)' <=> Importing(s)
    BY <1>0 DEF Importing, InIngest
  <2> QED BY <1>0, <2>1, <2>2 DEF ThreadInd
<1>3. ASSUME NEW f \in table' \ stored' PROVE Uncommitted(f)'
  BY <1>0 DEF LibraryInd, Uncommitted
<1>4. /\ \A f \in table' : f[1] \in Minted'
      /\ stored' \subseteq table'
      /\ \A i \in Rows(stored)' \ cut' : Whole(stored, i)' /\ i \in files'
  BY <1>0 DEF LibraryInd, Whole
<1>5. ASSUME cited # Nobody PROVE CitedInd'
  <2>1. CitedInd
    BY <1>5 DEF LibraryInd
  <2> QED BY <1>0, <2>1 DEF CitedInd, Visible, Reliable, InIngest
<1> QED BY <1>0, <1>1, <1>2, <1>3, <1>4, <1>5 DEF LibraryInd

LEMMA LibraryStep ==
  ASSUME LibraryInd, LibraryNext
  PROVE  LibraryInd'
<1>1. CASE Restart
  BY <1>1, RestartStep
<1>2. ASSUME NEW q \in Imports, ImportCommand(q) PROVE LibraryInd'
  <2>1. q \in ImportRequests /\ Loop \in Threads
    BY LibraryAssumption DEF Threads
  <2> QED BY <1>2, <2>1, ImportStep DEF ImportCommand
<1>3. ASSUME NEW t \in Pool, ImportCourse(t) PROVE LibraryInd'
  <2>1. Textbook \in ImportRequests /\ t \in Threads
    BY LibraryAssumption DEF Threads
  <2> QED BY <1>3, <2>1, ImportStep DEF ImportCourse
<1>4. ASSUME NEW i \in Ids, NEW who \in Learners, Activate(i, who) PROVE LibraryInd'
  BY <1>4, ActivateStep
<1>5. ASSUME NEW who \in Learners, NEW strategy \in Strategies, SearchLibrary(who, strategy)
      PROVE  LibraryInd'
  BY <1>5, SearchStep
<1>6. ASSUME NEW t \in Threads,
             \/ CopyFile(t) \/ IngestBegins(t) \/ IngestInserts(t)
             \/ IngestCommits(t) \/ IngestFails(t)
             \/ ActivateSets(t) \/ ActivateCommits(t)
             \/ RecordOperation(t) \/ CommitRecord(t) \/ RecordFails(t)
      PROVE  LibraryInd'
  BY <1>6, CopyStep, BeginsStep, InsertsStep, CommitsStep, FailsStep, ActivateSetsStep,
     ActivatedStep, RecordStep, CommitRecordStep, RecordFailsStep
<1> QED BY <1>1, <1>2, <1>3, <1>4, <1>5, <1>6 DEF LibraryNext

LEMMA LibraryHolds == LibraryInd => WholeImports /\ EvidenceStands
<1> SUFFICES ASSUME LibraryInd PROVE WholeImports /\ EvidenceStands
  OBVIOUS
<1>1. WholeImports
  BY DEF LibraryInd, WholeImports
<1>2. EvidenceStands
  <2> SUFFICES ASSUME cited # Nobody PROVE EvidenceStands
    BY DEF EvidenceStands
  <2>1. CitedInd
    BY DEF LibraryInd
  <2> QED BY <1>1, <2>1 DEF CitedInd, EvidenceStands, WholeImports
<1> QED BY <1>1, <1>2

(* Deep research: no end of a turn leaves a research running. *)

LEMMA RunningInit == ResearchInit => RunningInd
BY DEF ResearchInit, RunningInd, NoReport

\* A handler that stops a research leaves none running.
LEMMA StoppedEnds ==
  ASSUME RunningInd, NEW status \in {"failed", "cancelled", "interrupted"}, Stopped(status)
  PROVE  "status" \in DOMAIN research' /\ research'.status # "running"
BY DEF RunningInd, Stopped

LEMMA RunningUnchanged ==
  ASSUME RunningInd, UNCHANGED <<research, mark, traces, kills, at>>
  PROVE  RunningInd'
BY DEF RunningInd

\* Steps after which the turn is where its research may be running.
LEMMA RunningProgress ==
  ASSUME RunningInd, UNCHANGED <<mark, traces, kills>>, at # "idle",
         NEW sources, Progress("running", sources), at' \in Saving
  PROVE  RunningInd'
BY DEF RunningInd, Progress

LEMMA RunningNextRound ==
  ASSUME RunningInd, UNCHANGED <<mark, traces, kills>>, at # "idle",
         NEW sources, AfterRound(sources) \/ NextRound(sources)
  PROVE  RunningInd'
BY RunningProgress DEF AfterRound, NextRound, Writing, Collecting, Saving

\* Steps of a turn that leave the research as it is.
LEMMA RunningElsewhere ==
  ASSUME RunningInd, UNCHANGED <<research, mark, traces, kills>>, at # "idle", at \notin Saving
  PROVE  RunningInd'
BY DEF RunningInd

LEMMA RunningStopped ==
  ASSUME RunningInd, UNCHANGED <<traces, kills>>, at' # "idle" => at # "idle" /\ mark' = mark,
         NEW status \in {"failed", "cancelled", "interrupted"}, Stopped(status)
  PROVE  RunningInd'
BY StoppedEnds DEF RunningInd

LEMMA RepliesRunning == RunningInd /\ Replies => RunningInd'
<1> SUFFICES ASSUME RunningInd, Replies PROVE RunningInd'
  OBVIOUS
<1>1. ASSUME NEW p \in Plans, Plan(p) PROVE RunningInd'
  <2>1. UNCHANGED <<mark, traces, kills>> /\ at # "idle"
    BY <1>1 DEF Plan
  <2>2. CASE Taken(p) = <<>>
    BY <1>1, <2>1, <2>2, RunningProgress DEF Plan, Writing, Saving
  <2>3. CASE Taken(p) # <<>>
    BY <1>1, <2>1, <2>3, RunningProgress DEF Plan, Collecting, Saving
  <2> QED BY <2>2, <2>3
<1>2. ASSUME NEW i \in Tasks, NEW s \in Found \cup {<<>>}, NativeReplies(i, s) \/ FallbackReplies(i, s)
      PROVE  RunningInd'
  BY <1>2, RunningUnchanged DEF NativeReplies, FallbackReplies, sessionRow
<1>3. ASSUME NEW urls \in SUBSET Urls, Extract(urls) PROVE RunningInd'
  BY <1>3, RunningNextRound DEF Extract
<1> QED BY <1>1, <1>2, <1>3 DEF Replies

LEMMA WorksRunning == RunningInd /\ Works => RunningInd'
<1> SUFFICES ASSUME RunningInd, Works PROVE RunningInd'
  OBVIOUS
<1>1. CASE Prepare
  BY <1>1, RunningProgress DEF Prepare, Saving
<1>2. CASE Collect
  BY <1>2, RunningNextRound DEF Collect
<1>3. CASE Gather
  <2>1. UNCHANGED <<mark, traces, kills>> /\ at # "idle"
    BY <1>3 DEF Gather
  <2>2. CASE Progress("running", Gathered) /\ at' = "extract"
    BY <2>1, <2>2, RunningProgress DEF Collecting, Saving
  <2>3. CASE AfterRound(Gathered)
    BY <2>1, <2>3, RunningNextRound
  <2> QED BY <1>3, <2>2, <2>3 DEF Gather
<1>4. ASSUME NEW i \in Tasks, SearchStarts(i) PROVE RunningInd'
  BY <1>4, RunningUnchanged DEF SearchStarts, sessionRow
<1>5. ASSUME NEW n \in 0..(MaxSources + 1), WriteReport(n) PROVE RunningInd'
  BY <1>5 DEF WriteReport, sessionRow, RunningInd, Saving
<1>6. CASE Complete
  BY <1>6 DEF Complete, Progress, RunningInd
<1>7. CASE AppendReport \/ PrepareChat \/ StartSearch \/ Decide \/ Lookup \/ Chat
  <2>1. UNCHANGED <<research, mark, traces, kills>>
    BY <1>7 DEF AppendReport, PrepareChat, StartSearch, Decide, Lookup, Chat, sessionRow
  <2>2. at \in {"completed", "begin", "web", "decide", "lookup", "chat"}
    BY <1>7 DEF AppendReport, PrepareChat, StartSearch, Decide, Lookup, Chat
  <2> QED BY <2>1, <2>2, RunningElsewhere DEF Collecting, Saving
<1>8. CASE Fail
  <2>1. at # "idle"
    BY <1>8 DEF Fail, CannotBegin
  <2> QED BY <1>8, <2>1, RunningStopped DEF Fail
<1>9. CASE Finish
  BY <1>9 DEF Finish, Gone, RunningInd, Collecting, Saving
<1> QED BY <1>1, <1>2, <1>3, <1>4, <1>5, <1>6, <1>7, <1>8, <1>9 DEF Works

LEMMA RunningStep == RunningInd /\ [ResearchNext]_researchVars => RunningInd'
<1> SUFFICES ASSUME RunningInd, [ResearchNext]_researchVars PROVE RunningInd'
  OBVIOUS
<1>1. CASE PutSettings
  BY <1>1, RunningUnchanged DEF PutSettings, sessionRow
<1>2. ASSUME NEW m \in Modes \cup {"deep"}, NEW b \in BOOLEAN, BeginTurn(m, b) PROVE RunningInd'
  BY <1>2 DEF BeginTurn, RunningInd, Collecting, Saving
<1>3. CASE TimeOut
  BY <1>3, RunningProgress DEF TimeOut, Writing, Collecting, Saving
<1>4. CASE CancelCollecting
  BY <1>4 DEF CancelCollecting, Progress, RunningInd, Collecting
<1>5. CASE Cancel \/ CancelAnswered
  <2>1. at # "idle" /\ UNCHANGED <<mark, traces, kills>>
    BY <1>5 DEF Cancel, CancelAnswered
  <2> QED BY <1>5, <2>1, RunningStopped DEF Cancel, CancelAnswered
<1>6. CASE Resume
  BY <1>6, RunningStopped DEF Resume
<1>7. CASE Kill
  BY <1>7 DEF Kill, Gone, sessionRow, RunningInd, Collecting, Saving
<1>8. CASE UNCHANGED researchVars
  BY <1>8, RunningUnchanged DEF researchVars, sessionRow
<1> QED BY <1>1, <1>2, <1>3, <1>4, <1>5, <1>6, <1>7, <1>8, RepliesRunning, WorksRunning DEF ResearchNext

LEMMA RunningHolds == RunningInd => RunningExplained
BY DEF RunningInd, RunningExplained, Collecting, Saving

(* Folding a sequence: FoldLeft takes its last member off, down to the empty *)
(* set of places.                                                            *)

LEMMA WithoutLast ==
  ASSUME NEW n \in Nat, NEW T \in SUBSET (1..n), T # {}
  PROVE  /\ Max(T) \in T /\ n - 1 \in Nat
         /\ T \ {Max(T)} \in SUBSET (1..(n - 1))
<1>1. Max(T) \in T /\ \A y \in T : Max(T) >= y
  BY MaxOf
<1>2. PICK m \in 1..n : m = Max(T)
  BY <1>1
<1>3. n - 1 \in Nat
  BY <1>2
<1>4. ASSUME NEW y \in T \ {Max(T)} PROVE y \in 1..(n - 1)
  <2>1. y \in 1..n /\ m >= y /\ y # m
    BY <1>1, <1>2
  <2> QED BY <2>1
<1>5. T \ {Max(T)} \in SUBSET (1..(n - 1))
  BY <1>4
<1> QED BY <1>1, <1>3, <1>5

\* What holds of {} and of every set that it holds of without its last member.
LEMMA ByLast ==
  ASSUME NEW N \in Nat, NEW Good, {} \in Good,
         \A T \in SUBSET (1..N) : T # {} /\ T \ {Max(T)} \in Good => T \in Good
  PROVE  \A T \in SUBSET (1..N) : T \in Good
<1> DEFINE Bad == {n \in 0..N : \E T \in SUBSET (1..n) : T \notin Good}
<1>1. ASSUME Bad # {} PROVE FALSE
  <2>0. Bad \in SUBSET Nat
    OBVIOUS
  <2>1. PICK n \in Bad : \A m \in Bad : n <= m
    <3> HIDE DEF Bad
    <3> QED BY <1>1, <2>0, LeastOf
  <2>a. n \in 0..N /\ \E T \in SUBSET (1..n) : T \notin Good
    OBVIOUS
  <2>2. PICK T \in SUBSET (1..n) : T \notin Good
    BY <2>a
  <2>b. 1..n \subseteq 1..N
    BY <2>a
  <2>3. T # {} /\ n \in Nat /\ T \in SUBSET (1..N)
    BY <2>a, <2>b, <2>2
  <2>4. n - 1 \in Nat /\ T \ {Max(T)} \in SUBSET (1..(n - 1))
    BY <2>2, <2>3, WithoutLast
  <2>5. T \ {Max(T)} \notin Good
    BY <2>2, <2>3
  <2>6. n - 1 \in Bad
    BY <2>a, <2>4, <2>5
  <2>7. n <= n - 1
    <3> HIDE DEF Bad
    <3> QED BY <2>1, <2>6
  <2> QED BY <2>3, <2>7
<1>2. N \notin Bad
  BY <1>1
<1> QED BY <1>2

\* A fold by a function of pairs exists.
Folded(g, F, base, s, T) ==
  IF T = {} THEN base ELSE F[<<g[T \ {Max(T)}], s[Max(T)]>>]
FoldedTo(n, F, A, N, base, s) ==
  \E g \in [SUBSET (1..N) -> A] : \A T \in SUBSET (1..n) : g[T] = Folded(g, F, base, s, T)

LEMMA FoldExists ==
  ASSUME NEW N \in Nat, NEW A, NEW B, NEW base \in A, NEW F \in [A \X B -> A], NEW s \in [1..N -> B]
  PROVE  FoldedTo(N, F, A, N, base, s)
<1> DEFINE Bad == {n \in 0..N : ~FoldedTo(n, F, A, N, base, s)}
<1>1. FoldedTo(0, F, A, N, base, s)
  <2> DEFINE z == [T \in SUBSET (1..N) |-> base]
  <2>1. z \in [SUBSET (1..N) -> A] /\ \A T \in SUBSET (1..0) : z[T] = Folded(z, F, base, s, T)
    BY DEF Folded
  <2> HIDE DEF z
  <2> QED BY <2>1 DEF FoldedTo
<1>2. ASSUME NEW n \in 0..N, n # 0, FoldedTo(n - 1, F, A, N, base, s)
      PROVE  FoldedTo(n, F, A, N, base, s)
  <2>1. PICK g \in [SUBSET (1..N) -> A] :
          \A T \in SUBSET (1..(n - 1)) : g[T] = Folded(g, F, base, s, T)
    BY <1>2 DEF FoldedTo
  <2> DEFINE h == [T \in SUBSET (1..N) |-> Folded(g, F, base, s, T)]
  <2>2. ASSUME NEW T \in SUBSET (1..N), T # {}
        PROVE  Max(T) \in 1..N /\ T \ {Max(T)} \in SUBSET (1..N)
    BY <2>2, WithoutLast
  <2>3. h \in [SUBSET (1..N) -> A]
    <3>1. ASSUME NEW T \in SUBSET (1..N) PROVE Folded(g, F, base, s, T) \in A
      <4>1. CASE T = {}
        BY <4>1 DEF Folded
      <4>2. CASE T # {}
        <5>1. g[T \ {Max(T)}] \in A /\ s[Max(T)] \in B
          BY <2>2, <4>2
        <5> QED BY <4>2, <5>1 DEF Folded
      <4> QED BY <4>1, <4>2
    <3> QED BY <3>1
  <2>4. ASSUME NEW T \in SUBSET (1..n) PROVE h[T] = Folded(h, F, base, s, T)
    <3>0. T \in SUBSET (1..N) /\ n \in Nat
      OBVIOUS
    <3>1. CASE T = {}
      BY <3>0, <3>1 DEF Folded
    <3>2. CASE T # {}
      <4>1. T \ {Max(T)} \in SUBSET (1..(n - 1)) /\ T \ {Max(T)} \in SUBSET (1..N)
        BY <2>2, <3>0, <3>2, WithoutLast
      <4>2. g[T \ {Max(T)}] = Folded(g, F, base, s, T \ {Max(T)})
        BY <2>1, <4>1
      <4>3. h[T \ {Max(T)}] = g[T \ {Max(T)}]
        BY <4>1, <4>2
      <4>4. h[T] = Folded(g, F, base, s, T)
        BY <3>0
      <4> QED BY <3>2, <4>3, <4>4 DEF Folded
    <3> QED BY <3>1, <3>2
  <2> HIDE DEF h
  <2> QED BY <2>3, <2>4 DEF FoldedTo
<1>3. ASSUME Bad # {} PROVE FALSE
  <2> HIDE DEF Bad
  <2>0. Bad \in SUBSET Nat
    BY DEF Bad
  <2>1. PICK n \in Bad : \A m \in Bad : n <= m
    BY <1>3, <2>0, LeastOf
  <2>2. n \in 0..N /\ ~FoldedTo(n, F, A, N, base, s)
    BY <2>1 DEF Bad
  <2>3. n # 0
    BY <1>1, <2>2
  <2>4. n - 1 \in 0..N /\ n - 1 \notin Bad
    BY <2>1, <2>2, <2>3
  <2>5. FoldedTo(n - 1, F, A, N, base, s)
    BY <2>4 DEF Bad
  <2> QED BY <1>2, <2>2, <2>3, <2>5
<1>4. N \notin Bad
  BY <1>3
<1> QED BY <1>4

(* Sources that are added, one and several.                                  *)

\* The lists of different sources that begin with a list.
Beyond(sources) == {x \in Seq(Urls) : IsInjective(x) /\ IsPrefix(sources, x)}

LEMMA PrefixIs ==
  ASSUME NEW s \in Seq(Urls), NEW t \in Seq(Urls)
  PROVE  IsPrefix(s, t) <=> Len(s) <= Len(t) /\ \A i \in 1..Len(s) : t[i] = s[i]
<1>1. Len(s) \in Nat /\ Len(t) \in Nat
  OBVIOUS
<1>2. ASSUME Len(s) <= Len(t)
      PROVE  /\ SubSeq(s, 1, Len(s)) = s
             /\ SubSeq(t, 1, Len(s)) \in Seq(Urls) /\ Len(SubSeq(t, 1, Len(s))) = Len(s)
             /\ \A i \in 1..Len(s) : SubSeq(t, 1, Len(s))[i] = t[i]
  BY <1>1, <1>2
<1>3. ASSUME Len(s) <= Len(t), IsPrefix(s, t), NEW i \in 1..Len(s) PROVE t[i] = s[i]
  BY <1>2, <1>3 DEF IsPrefix
<1>4. ASSUME Len(s) <= Len(t), \A i \in 1..Len(s) : t[i] = s[i] PROVE IsPrefix(s, t)
  <2>1. SubSeq(t, 1, Len(s)) = s
    BY <1>2, <1>4, SeqEqual
  <2> QED BY <1>2, <1>4, <2>1 DEF IsPrefix
<1> QED BY <1>3, <1>4 DEF IsPrefix

LEMMA BeyondItself == ASSUME NEW s \in Seq(Urls), IsInjective(s) PROVE s \in Beyond(s)
<1>1. IsPrefix(s, s)
  BY PrefixIs
<1> QED BY <1>1 DEF Beyond

LEMMA BeyondBeyond ==
  ASSUME NEW s \in Seq(Urls), NEW t \in Beyond(s), NEW u \in Beyond(t)
  PROVE  u \in Beyond(s)
<1>1. t \in Seq(Urls) /\ u \in Seq(Urls) /\ IsInjective(u) /\ IsPrefix(s, t) /\ IsPrefix(t, u)
  BY DEF Beyond
<1>2. /\ Len(s) <= Len(t) /\ \A i \in 1..Len(s) : t[i] = s[i]
      /\ Len(t) <= Len(u) /\ \A i \in 1..Len(t) : u[i] = t[i]
  BY <1>1, PrefixIs
<1>3. Len(s) <= Len(u) /\ \A i \in 1..Len(s) : u[i] = s[i]
  <2>1. Len(s) \in Nat /\ Len(t) \in Nat /\ Len(u) \in Nat
    BY <1>1
  <2> QED BY <1>2, <2>1
<1> QED BY <1>1, <1>3, PrefixIs DEF Beyond

LEMMA AddBeyond ==
  ASSUME NEW s \in Seq(Urls), NEW t \in Beyond(s), NEW url \in Urls
  PROVE  Add(t, url) \in Beyond(s)
<1>1. t \in Seq(Urls) /\ IsInjective(t)
  BY DEF Beyond
<1>2. CASE url \in ToSet(t) \/ Len(t) >= MaxSources
  BY <1>2 DEF Add
<1>3. CASE url \notin ToSet(t) /\ ~(Len(t) >= MaxSources)
  <2> DEFINE u == Append(t, url)
  <2>1. /\ u \in Seq(Urls) /\ Len(u) = Len(t) + 1 /\ Len(t) \in Nat
        /\ \A i \in 1..Len(t) : u[i] = t[i]
        /\ u[Len(t) + 1] = url /\ DOMAIN u = 1..(Len(t) + 1) /\ DOMAIN t = 1..Len(t)
    BY <1>1
  <2>2. \A i \in 1..Len(t) : t[i] # url
    BY <1>1, <1>3 DEF ToSet
  <2> HIDE DEF u
  <2>3. \A i, j \in 1..Len(t) : t[i] = t[j] => i = j
    BY <1>1, <2>1 DEF IsInjective
  <2>4. \A i \in 1..(Len(t) + 1) : i \in 1..Len(t) \/ i = Len(t) + 1
    BY <2>1
  <2>5. IsInjective(u)
    BY <2>1, <2>2, <2>3, <2>4 DEF IsInjective
  <2>6. IsPrefix(t, u)
    BY <1>1, <2>1, PrefixIs
  <2>7. u \in Beyond(t)
    BY <2>1, <2>5, <2>6 DEF Beyond
  <2>8. Add(t, url) = u
    BY <1>3 DEF Add, u
  <2> QED BY <2>7, <2>8, BeyondBeyond
<1> QED BY <1>2, <1>3

Adds(g, base, s) ==
  g = [T \in SUBSET DOMAIN s |-> IF T = {} THEN base ELSE Add(g[T \ {Max(T)}], s[Max(T)])]
AddsAll(g, base, s) ==
  g = [T \in SUBSET DOMAIN s |-> IF T = {} THEN base ELSE AddAll(g[T \ {Max(T)}], s[Max(T)])]

LEMMA AddAllIs ==
  ASSUME NEW base, NEW s
  PROVE  AddAll(base, s) = (CHOOSE g : Adds(g, base, s))[DOMAIN s]
BY DEF AddAll, FoldLeft, MapThenFoldSet, Adds

LEMMA GatheredIs ==
  Gathered = (CHOOSE g : AddsAll(g, collection, result))[DOMAIN result]
BY DEF Gathered, FoldLeft, MapThenFoldSet, AddsAll

\* A list of sources added to different ones leaves them where they are, and
\* adds none twice.
LEMMA AddAllBeyond ==
  ASSUME NEW base \in Seq(Urls), NEW t \in Beyond(base), NEW s \in Seq(Urls)
  PROVE  AddAll(t, s) \in Beyond(base)
<1> DEFINE A == Beyond(base)
           N == Len(s)
           F == [p \in A \X Urls |-> Add(p[1], p[2])]
<1>1. N \in Nat /\ DOMAIN s = 1..N /\ s \in [1..N -> Urls]
  OBVIOUS
<1>2. F \in [A \X Urls -> A] /\ \A x \in A, url \in Urls : F[<<x, url>>] = Add(x, url)
  BY AddBeyond
<1>3. t \in A
  OBVIOUS
<1> HIDE DEF A, N, F
<1>a. FoldedTo(N, F, A, N, t, s)
  BY <1>1, <1>2, <1>3, FoldExists
<1>4. PICK g \in [SUBSET (1..N) -> A] : \A T \in SUBSET (1..N) : g[T] = Folded(g, F, t, s, T)
  BY <1>a DEF FoldedTo
<1>5. ASSUME NEW T \in SUBSET (1..N), T # {}
      PROVE  Max(T) \in 1..N /\ T \ {Max(T)} \in SUBSET (1..N) /\ s[Max(T)] \in Urls
  BY <1>1, <1>5, WithoutLast
<1>6. Adds(g, t, s)
  <2>1. ASSUME NEW T \in SUBSET (1..N)
        PROVE  g[T] = IF T = {} THEN t ELSE Add(g[T \ {Max(T)}], s[Max(T)])
    <3>1. CASE T = {}
      BY <1>4, <3>1 DEF Folded
    <3>2. CASE T # {}
      <4>1. g[T] = F[<<g[T \ {Max(T)}], s[Max(T)]>>] /\ g[T \ {Max(T)}] \in A
        BY <1>4, <1>5, <3>2 DEF Folded
      <4> QED BY <1>2, <1>5, <3>2, <4>1
    <3> QED BY <3>1, <3>2
  <2> QED BY <1>1, <2>1 DEF Adds
<1> DEFINE c == CHOOSE h : Adds(h, t, s)
<1>7. Adds(c, t, s) /\ AddAll(t, s) = c[1..N]
  BY <1>1, <1>6, AddAllIs
<1> HIDE DEF c
<1> DEFINE Good == {T \in SUBSET (1..N) : c[T] \in A}
<1>8. {} \in Good
  BY <1>1, <1>3, <1>7 DEF Adds
<1>9. ASSUME NEW T \in SUBSET (1..N), T # {}, T \ {Max(T)} \in Good PROVE T \in Good
  <2>1. c[T] = Add(c[T \ {Max(T)}], s[Max(T)]) /\ c[T \ {Max(T)}] \in A
    BY <1>1, <1>7, <1>9 DEF Adds
  <2>2. c[T] \in A
    BY <1>5, <1>9, <2>1, AddBeyond DEF A
  <2> QED BY <2>2
<1>10. \A T \in SUBSET (1..N) : T \in Good
  <2> HIDE DEF Good
  <2> QED BY <1>1, <1>8, <1>9, ByLast
<1> QED BY <1>7, <1>10 DEF A

LEMMA GatheredBeyond ==
  ASSUME collection \in Seq(Urls), IsInjective(collection), result \in [Tasks -> Seq(Urls)]
  PROVE  Gathered \in Beyond(collection)
<1> DEFINE A == Beyond(collection)
           F == [p \in A \X Seq(Urls) |-> AddAll(p[1], p[2])]
<1>1. PerRound \in Nat /\ DOMAIN result = 1..PerRound /\ result \in [1..PerRound -> Seq(Urls)]
  BY ResearchAssumption DEF Tasks
<1>2. F \in [A \X Seq(Urls) -> A] /\ \A x \in A, s \in Seq(Urls) : F[<<x, s>>] = AddAll(x, s)
  BY AddAllBeyond
<1>3. collection \in A
  BY BeyondItself
<1> HIDE DEF A, F
<1>a. FoldedTo(PerRound, F, A, PerRound, collection, result)
  BY <1>1, <1>2, <1>3, FoldExists
<1>4. PICK g \in [SUBSET (1..PerRound) -> A] :
        \A T \in SUBSET (1..PerRound) : g[T] = Folded(g, F, collection, result, T)
  BY <1>a DEF FoldedTo
<1>5. ASSUME NEW T \in SUBSET (1..PerRound), T # {}
      PROVE  /\ Max(T) \in 1..PerRound /\ T \ {Max(T)} \in SUBSET (1..PerRound)
             /\ result[Max(T)] \in Seq(Urls)
  BY <1>1, <1>5, WithoutLast
<1>6. AddsAll(g, collection, result)
  <2>1. ASSUME NEW T \in SUBSET (1..PerRound)
        PROVE  g[T] = IF T = {} THEN collection ELSE AddAll(g[T \ {Max(T)}], result[Max(T)])
    <3>1. CASE T = {}
      BY <1>4, <3>1 DEF Folded
    <3>2. CASE T # {}
      <4>1. g[T] = F[<<g[T \ {Max(T)}], result[Max(T)]>>] /\ g[T \ {Max(T)}] \in A
        BY <1>4, <1>5, <3>2 DEF Folded
      <4> QED BY <1>2, <1>5, <3>2, <4>1
    <3> QED BY <3>1, <3>2
  <2> QED BY <1>1, <2>1 DEF AddsAll
<1> DEFINE c == CHOOSE h : AddsAll(h, collection, result)
<1>7. AddsAll(c, collection, result) /\ Gathered = c[1..PerRound]
  BY <1>1, <1>6, GatheredIs
<1> HIDE DEF c
<1> DEFINE Good == {T \in SUBSET (1..PerRound) : c[T] \in A}
<1>8. {} \in Good
  BY <1>1, <1>3, <1>7 DEF AddsAll
<1>9. ASSUME NEW T \in SUBSET (1..PerRound), T # {}, T \ {Max(T)} \in Good PROVE T \in Good
  <2>1. c[T] = AddAll(c[T \ {Max(T)}], result[Max(T)]) /\ c[T \ {Max(T)}] \in A
    BY <1>1, <1>7, <1>9 DEF AddsAll
  <2>2. c[T] \in A
    BY <1>5, <1>9, <2>1, AddAllBeyond DEF A
  <2> QED BY <2>2
<1>10. \A T \in SUBSET (1..PerRound) : T \in Good
  <2> HIDE DEF Good
  <2> QED BY <1>1, <1>8, <1>9, ByLast
<1> QED BY <1>7, <1>10 DEF A

(* Deep research: what is saved is never lost.                               *)

\* What a step does to the saved sources (SourcesKept).
Keeps ==
  /\ research'.id = research.id => IsPrefix(research.sources, research'.sources)
  /\ IsInjective(research'.sources)

LEMMA SourcesInit == ResearchInit => SourcesInd
<1> SUFFICES ASSUME ResearchInit PROVE SourcesInd
  OBVIOUS
<1>1. /\ traces = 0 /\ research = NoReport /\ at = "idle" /\ collection = <<>>
      /\ result = [i \in Tasks |-> <<>>]
  BY DEF ResearchInit
<1>2. IsInjective(<<>>)
  BY DEF IsInjective
<1>3. NoReport \in [id : 0..0, status : Statuses, sources : Seq(Urls)] /\ NoReport.sources = <<>>
  BY DEF NoReport, Statuses
<1> QED BY <1>1, <1>2, <1>3 DEF SourcesInd, Saving, Collecting

LEMMA EmptyBatch == ASSUME NoBatch PROVE result' \in [Tasks -> Seq(Urls)]
BY DEF NoBatch

\* A step that saves what is collected now.
LEMMA SavesSources ==
  ASSUME SourcesInd, traces' = traces, collection' \in Beyond(collection),
         result' \in [Tasks -> Seq(Urls)], NEW status \in Statuses,
         Progress(status, collection'), at \in Saving \cup {"begin"}, at' \notin {"idle", "begin"}
  PROVE  SourcesInd' /\ Keeps
<1>1. /\ research' = [id |-> traces, status |-> status, sources |-> collection']
      /\ collection \in Seq(Urls) /\ collection' \in Seq(Urls) /\ IsInjective(collection')
      /\ traces \in Nat
  BY DEF Progress, SourcesInd, Beyond
<1>2. IsPrefix(collection', collection')
  BY <1>1, BeyondItself DEF Beyond
<1>3. SourcesInd'
  BY <1>1, <1>2 DEF SourcesInd
<1>4. ASSUME research'.id = research.id PROVE IsPrefix(research.sources, research'.sources)
  <2>1. at \in Saving
    BY <1>1, <1>4 DEF SourcesInd
  <2>2. collection \in Beyond(research.sources) /\ research.sources \in Seq(Urls)
    BY <2>1 DEF SourcesInd, Beyond
  <2>3. collection' \in Beyond(research.sources)
    BY <2>2, BeyondBeyond
  <2> QED BY <1>1, <2>3 DEF Beyond
<1> QED BY <1>1, <1>3, <1>4 DEF Keeps

LEMMA SameCollection ==
  ASSUME SourcesInd, collection' = collection PROVE collection' \in Beyond(collection)
BY BeyondItself DEF SourcesInd

\* A step that saves nothing new, of a turn that goes on.
LEMMA LeavesSources ==
  ASSUME SourcesInd, traces' = traces, collection' = collection, result' \in [Tasks -> Seq(Urls)],
         research' = research \/ \E status \in Statuses : research' = [research EXCEPT !.status = status],
         at' = at \/ (at' \notin {"idle", "begin"} /\ (at' \in Saving => at \in Saving))
  PROVE  SourcesInd' /\ Keeps
<1>1. /\ research.id \in 0..traces /\ research.sources \in Seq(Urls) /\ IsInjective(research.sources)
      /\ research \in [id : 0..traces, status : Statuses, sources : Seq(Urls)]
  BY DEF SourcesInd
<1>2. /\ research' \in [id : 0..traces, status : Statuses, sources : Seq(Urls)]
      /\ research'.id = research.id /\ research'.sources = research.sources
  BY <1>1
<1>3. IsPrefix(research.sources, research.sources)
  BY <1>1, PrefixIs
<1>4. SourcesInd'
  BY <1>2 DEF SourcesInd
<1> QED BY <1>1, <1>2, <1>3, <1>4 DEF Keeps

LEMMA StoppedLeaves ==
  ASSUME NEW status \in Statuses, Stopped(status)
  PROVE  research' = research \/ \E s \in Statuses : research' = [research EXCEPT !.status = s]
BY DEF Stopped

\* A turn that is over.
LEMMA GoneLeaves ==
  ASSUME SourcesInd, Gone, UNCHANGED <<research, traces>>
  PROVE  SourcesInd' /\ Keeps
<1>1. at' = "idle" /\ collection' = <<>> /\ result' \in [Tasks -> Seq(Urls)]
  BY EmptyBatch DEF Gone
<1>2. IsInjective(<<>>)
  BY DEF IsInjective
<1>3. SourcesInd'
  BY <1>1, <1>2 DEF SourcesInd, Saving, Collecting
<1>4. research.sources \in Seq(Urls) /\ IsInjective(research.sources)
  BY DEF SourcesInd
<1>5. IsPrefix(research.sources, research.sources)
  BY <1>4, PrefixIs
<1> QED BY <1>3, <1>4, <1>5 DEF Keeps

\* The loop's head, and its end.
LEMMA RoundSaves ==
  ASSUME SourcesInd, traces' = traces, collection' \in Beyond(collection),
         result' \in [Tasks -> Seq(Urls)], at \in Saving,
         NextRound(collection') \/ AfterRound(collection')
  PROVE  SourcesInd' /\ Keeps
<1>1. Progress("running", collection') /\ at' \in {"plan", "write"}
  BY DEF NextRound, AfterRound, Writing
<1>2. "running" \in Statuses
  BY DEF Statuses
<1> QED BY <1>1, <1>2, SavesSources

LEMMA RepliesKeep ==
  ASSUME SourcesInd, Replies
  PROVE  SourcesInd' /\ Keeps
<1>0. /\ "running" \in Statuses /\ Found \subseteq Seq(Urls) /\ <<>> \in Seq(Urls)
      /\ result \in [Tasks -> Seq(Urls)]
  BY ResearchAssumption DEF Statuses, SourcesInd
<1>1. ASSUME NEW p \in Plans, Plan(p) PROVE SourcesInd' /\ Keeps
  <2>1. /\ traces' = traces /\ collection' = collection /\ at \in Saving
        /\ Progress("running", collection') /\ at' \notin {"idle", "begin"}
    BY <1>1 DEF Plan, Writing, Saving, Collecting
  <2>2. result' \in [Tasks -> Seq(Urls)]
    BY <1>0, <1>1 DEF Plan, batch
  <2> QED BY <1>0, <2>1, <2>2, SameCollection, SavesSources
<1>2. ASSUME NEW i \in Tasks, NEW s \in Found \cup {<<>>}, NativeReplies(i, s) \/ FallbackReplies(i, s)
      PROVE  SourcesInd' /\ Keeps
  <2>1. UNCHANGED <<traces, collection, research, at>>
    BY <1>2 DEF NativeReplies, FallbackReplies, sessionRow, collected
  <2>2. result' \in [Tasks -> Seq(Urls)]
    BY <1>0, <1>2 DEF NativeReplies, FallbackReplies
  <2> QED BY <2>1, <2>2, LeavesSources
<1>3. ASSUME NEW urls \in SUBSET Urls, Extract(urls) PROVE SourcesInd' /\ Keeps
  <2>1. /\ traces' = traces /\ collection' = collection /\ result' = result /\ at \in Saving
        /\ AfterRound(collection')
    BY <1>3 DEF Extract, batch, Saving, Collecting, AfterRound, NextRound, Writing, Progress
  <2> QED BY <1>0, <2>1, SameCollection, RoundSaves
<1> QED BY <1>1, <1>2, <1>3 DEF Replies

LEMMA WorksKeep ==
  ASSUME SourcesInd, Works
  PROVE  SourcesInd' /\ Keeps
<1>0. /\ result \in [Tasks -> Seq(Urls)] /\ collection \in Seq(Urls) /\ IsInjective(collection)
      /\ {"running", "completed", "failed"} \subseteq Statuses
  BY DEF SourcesInd, Statuses
<1>1. CASE Prepare
  <2>1. /\ UNCHANGED <<traces, collection, result>> /\ at = "begin" /\ at' = "first"
        /\ Progress("running", collection')
    BY <1>1 DEF Prepare, collected, batch, Progress
  <2> QED BY <1>0, <2>1, SameCollection, SavesSources
<1>2. CASE Collect
  <2>1. /\ UNCHANGED <<traces, collection, result>> /\ at \in Saving /\ NextRound(collection')
    BY <1>2 DEF Collect, batch, Saving, NextRound, Writing, Progress
  <2> QED BY <1>0, <2>1, SameCollection, RoundSaves
<1>3. CASE Gather
  <2>1. /\ traces' = traces /\ at \in Saving /\ collection' = Gathered /\ NoBatch
    BY <1>3 DEF Gather, Saving, Collecting
  <2>2. collection' \in Beyond(collection) /\ result' \in [Tasks -> Seq(Urls)]
    BY <1>0, <2>1, GatheredBeyond, EmptyBatch
  <2>3. CASE Progress("running", Gathered) /\ at' = "extract"
    BY <1>0, <2>1, <2>2, <2>3, SavesSources
  <2>4. CASE AfterRound(Gathered)
    <3>1. AfterRound(collection')
      BY <2>1, <2>4
    <3> QED BY <2>1, <2>2, <3>1, RoundSaves
  <2> QED BY <1>3, <2>3, <2>4 DEF Gather
<1>4. ASSUME NEW i \in Tasks, SearchStarts(i) PROVE SourcesInd' /\ Keeps
  <2>1. UNCHANGED <<traces, collection, research, at, result>>
    BY <1>4 DEF SearchStarts, sessionRow
  <2> QED BY <1>0, <2>1, LeavesSources
<1>5. ASSUME NEW n \in 0..(MaxSources + 1), WriteReport(n) PROVE SourcesInd' /\ Keeps
  <2>1. UNCHANGED <<traces, collection, research, result>> /\ at = "write" /\ at' = "append"
    BY <1>5 DEF WriteReport, sessionRow, collected, batch
  <2> QED BY <1>0, <2>1, LeavesSources DEF Saving
<1>6. CASE Complete
  <2>1. /\ UNCHANGED <<traces, collection, result>> /\ at = "append" /\ at' = "completed"
        /\ Progress("completed", collection')
    BY <1>6 DEF Complete, batch, Progress
  <2> QED BY <1>0, <2>1, SameCollection, SavesSources DEF Saving
<1>7. CASE AppendReport \/ PrepareChat \/ StartSearch \/ Decide \/ Lookup \/ Chat
  <2>1. UNCHANGED <<traces, collection, research, result>>
    BY <1>7 DEF AppendReport, PrepareChat, StartSearch, Decide, Lookup, Chat, sessionRow, locals,
                collected, batch
  <2>2. at' \in {"answered", "chat", "web", "decide", "lookup"}
    BY <1>7 DEF AppendReport, PrepareChat, StartSearch, Decide, Lookup, Chat
  <2> QED BY <1>0, <2>1, <2>2, LeavesSources DEF Saving, Collecting
<1>8. CASE Fail
  <2>1. /\ UNCHANGED <<traces, collection, result>> /\ at' = "ending" /\ Stopped("failed")
    BY <1>8 DEF Fail, locals, collected, batch
  <2> QED BY <1>0, <2>1, StoppedLeaves, LeavesSources DEF Saving, Collecting
<1>9. CASE Finish
  BY <1>9, GoneLeaves DEF Finish
<1> QED BY <1>1, <1>2, <1>3, <1>4, <1>5, <1>6, <1>7, <1>8, <1>9 DEF Works

LEMMA SourcesStep ==
  ASSUME SourcesInd, [ResearchNext]_researchVars
  PROVE  SourcesInd' /\ [Keeps]_researchVars
<1>0. result \in [Tasks -> Seq(Urls)] /\ {"running", "cancelled", "interrupted"} \subseteq Statuses
  BY DEF SourcesInd, Statuses
<1>1. CASE PutSettings
  <2>1. UNCHANGED <<traces, collection, research, result, at>>
    BY <1>1 DEF PutSettings, sessionRow, locals, collected, batch
  <2> QED BY <1>0, <2>1, LeavesSources
<1>2. ASSUME NEW m \in Modes \cup {"deep"}, NEW b \in BOOLEAN, BeginTurn(m, b)
      PROVE  SourcesInd' /\ Keeps
  <2>1. /\ UNCHANGED <<collection, research, result>> /\ at = "idle" /\ at' = "begin"
        /\ traces' = traces + 1
    BY <1>2 DEF BeginTurn, locals, collected, batch
  <2>2. research \in [id : 0..traces, status : Statuses, sources : Seq(Urls)] /\ traces \in Nat
    BY DEF SourcesInd
  <2>3. research.id # traces' /\ research' \in [id : 0..traces', status : Statuses, sources : Seq(Urls)]
    BY <2>1, <2>2
  <2>4. SourcesInd'
    BY <2>1, <2>2, <2>3 DEF SourcesInd, Saving, Collecting
  <2>5. IsPrefix(research.sources, research.sources) /\ IsInjective(research.sources)
    BY <2>2, PrefixIs DEF SourcesInd
  <2> QED BY <2>1, <2>4, <2>5 DEF Keeps
<1>3. CASE TimeOut \/ CancelCollecting
  <2>1. /\ UNCHANGED <<traces, collection>> /\ at \in Saving /\ NoBatch
        /\ at' \in {"write", "ending"}
        /\ \E status \in Statuses : Progress(status, collection')
    BY <1>0, <1>3 DEF TimeOut, CancelCollecting, Writing, Saving, Progress
  <2> QED BY <2>1, EmptyBatch, SameCollection, SavesSources
<1>4. CASE Cancel \/ CancelAnswered \/ Resume
  <2>1. UNCHANGED <<traces, collection, result>> /\ at' \in {at, "ending"}
    BY <1>4 DEF Cancel, CancelAnswered, Resume, locals, collected, batch
  <2>2. research' = research \/ \E s \in Statuses : research' = [research EXCEPT !.status = s]
    BY <1>0, <1>4, StoppedLeaves DEF Cancel, CancelAnswered, Resume
  <2> QED BY <1>0, <2>1, <2>2, LeavesSources DEF Saving, Collecting
<1>5. CASE Kill
  BY <1>5, GoneLeaves DEF Kill, sessionRow
<1>6. CASE UNCHANGED researchVars
  <2>1. UNCHANGED <<traces, collection, research, result, at>>
    BY <1>6 DEF researchVars, sessionRow, locals, collected, batch
  <2> QED BY <1>0, <2>1, LeavesSources
<1> QED BY <1>1, <1>2, <1>3, <1>4, <1>5, <1>6, RepliesKeep, WorksKeep DEF ResearchNext

(* The specification: three scenes that share no variable. *)

EvidenceInd == GroundingInd /\ ActionsDecided /\ RunningInd /\ SourcesInd

LEMMA EvidenceInit == Init => EvidenceInd /\ LibraryInd
BY GroundingInitInd, DecidedInit, RunningInit, SourcesInit, LibraryInitInd DEF Init, EvidenceInd

LEMMA EvidenceStep == EvidenceInd /\ [Next]_vars => EvidenceInd'
<1> SUFFICES ASSUME EvidenceInd, [Next]_vars PROVE EvidenceInd'
  OBVIOUS
<1>0. GroundingTypeOK
  BY DEF EvidenceInd, GroundingInd
<1>1. CASE GroundingNext /\ UNCHANGED researchVars
  BY <1>0, <1>1, GroundingStep, DecidedStep, RunningStep, SourcesStep DEF EvidenceInd
<1>2. CASE ResearchNext /\ UNCHANGED groundingVars
  BY <1>0, <1>2, GroundingUnchanged, DecidedStep, RunningStep, SourcesStep DEF EvidenceInd
<1>3. CASE UNCHANGED groundingVars /\ UNCHANGED researchVars
  BY <1>0, <1>3, GroundingUnchanged, DecidedStep, RunningStep, SourcesStep DEF EvidenceInd
<1> QED BY <1>1, <1>2, <1>3 DEF Next, vars

LEMMA ImportsStep == LibraryInd /\ [Next]_vars => LibraryInd'
<1> SUFFICES ASSUME LibraryInd, [Next]_vars PROVE LibraryInd'
  OBVIOUS
<1>1. CASE LibraryNext
  BY <1>1, LibraryStep
<1>2. CASE UNCHANGED libraryVars
  BY <1>2, LibraryUnchanged
<1> QED BY <1>1, <1>2 DEF Next, vars

\* The invariant of the turns that ground their answers and of the research
\* (Grounding, DeepResearch) holds in every reachable state.
THEOREM EvidenceInvariant == Spec => []EvidenceInd
<1>1. Init => EvidenceInd
  BY EvidenceInit
<1>2. EvidenceInd /\ [Next]_vars => EvidenceInd'
  BY EvidenceStep
<1> QED BY <1>1, <1>2, PTL DEF Spec

\* However the dispatches of turns alternate, a turn rests on passages its own
\* query finds and its own learner may read, and an explanation cites exactly
\* what its model was given (runtime/capabilities.py's memo of a trace).
THEOREM EvidenceIsOwn == Spec => []OwnEvidence
<1>1. EvidenceInd => OwnEvidence
  BY GroundingHolds DEF EvidenceInd
<1> QED BY <1>1, EvidenceInvariant, PTL

\* Under the evidence constraint no model is asked in a turn that has found no
\* evidence, or whose input says there is none: the gate of assess decides after
\* every other rule and the estimate (graph/education/nodes/assess.py).
THEOREM EvidenceComesFirst == Spec => []ModelOnlyWithEvidence
<1>1. EvidenceInd => ModelOnlyWithEvidence
  BY GroundingHolds DEF EvidenceInd
<1> QED BY <1>1, EvidenceInvariant, PTL

\* No decision of the graph, from any state of a learner, meets a field, a text
\* or a primitive that its binding does not have, and each is answered as its
\* evidence allows (ActionDispatcher.execute and graph/education/bindings.py).
THEOREM DecisionsAreAnswered == Spec => []Assembled
<1>1. EvidenceInd => Assembled
  BY DecidedHolds DEF EvidenceInd, GroundingInd
<1> QED BY <1>1, EvidenceInvariant, PTL

\* A research is running only while its own turn runs or waits to be resumed, or
\* after a killed turn's mark was replaced by another turn's (the handlers of
\* _run_deep_research and _run_turn, and session.resume).
THEOREM NoOrphanResearch == Spec => []RunningExplained
<1>1. EvidenceInd => RunningExplained
  BY RunningHolds DEF EvidenceInd
<1> QED BY <1>1, EvidenceInvariant, PTL

\* No step loses, reorders or repeats a saved source of a research, whether it
\* goes on, is cancelled while searches are under way, times out, fails, or is
\* killed and resumed (progress, and the handlers of _run_deep_research).
THEOREM SourcesAreKept == Spec => SourcesKept
<1>1. EvidenceInd /\ [Next]_vars => [Keeps]_researchVars
  <2> SUFFICES ASSUME EvidenceInd, [Next]_vars PROVE [Keeps]_researchVars
    OBVIOUS
  <2>1. [ResearchNext]_researchVars
    BY DEF Next, vars
  <2> QED BY <2>1, SourcesStep DEF EvidenceInd
<1>2. [Keeps]_researchVars <=>
        [/\ research'.id = research.id => IsPrefix(research.sources, research'.sources)
         /\ IsInjective(research'.sources)]_researchVars
  BY DEF Keeps
<1> QED BY <1>1, <1>2, EvidenceInvariant, PTL DEF Spec, SourcesKept

\* What every step of the library keeps, whichever threads import.
THEOREM LibraryInvariant == Spec => []LibraryInd
<1>1. Init => LibraryInd
  BY EvidenceInit
<1>2. LibraryInd /\ [Next]_vars => LibraryInd'
  BY ImportsStep
<1> QED BY <1>1, <1>2, PTL DEF Spec

\* Every resource in the database is there as a whole, with its file, whatever
\* fails, rolls back or crashes and whichever threads share the connection, but
\* for an import that another thread's audit row committed in its middle and
\* that then did not get to its own commit (ingest and record_operation).
THEOREM ImportsAreWhole == Spec => []WholeImports
<1>1. LibraryInd => WholeImports
  BY LibraryHolds
<1> QED BY <1>1, LibraryInvariant, PTL

\* What a learner was shown as evidence stays where the citation points; what
\* was read of an import under way may vanish with it, or be left cut (search,
\* and what imports, activations and restarts do after it).
THEOREM EvidenceKeepsStanding == Spec => []EvidenceStands
<1>1. LibraryInd => EvidenceStands
  BY LibraryHolds
<1> QED BY <1>1, LibraryInvariant, PTL
=============================================================================
