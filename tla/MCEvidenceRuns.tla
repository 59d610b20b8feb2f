--------------------------- MODULE MCEvidenceRuns ----------------------------
(* Instances of EvidenceRuns. *)
EXTENDS EvidenceRuns

CONSTANTS loop, pool, ann, bob, text, scan, char, para

Request(owner, content, public, newVersion, activate) ==
  [owner |-> owner, content |-> content, public |-> public,
   newVersion |-> newVersion, activate |-> activate]

\* A course's textbook, public at once, and a private draft of a new version of it.
MCTextbook == Request(ann, text, TRUE, FALSE, TRUE)
MCImports == {Request(bob, text, FALSE, TRUE, FALSE)}
-----------------------------------------------------------------------------
CONSTANTS first, second, shared, private, stack, stackOnly

\* Two learners; the private passage is the second's.  The first turn's concept
\* adds to its query, the second's does not.
MCReadable == (first :> {shared}) @@ (second :> {shared, private})
MCHits == (stack :> {shared, private}) @@ (stackOnly :> {private})
MCAssessQuery == (first :> stack) @@ (second :> stack)
MCNodeQuery == (first :> stackOnly) @@ (second :> stack)

Situation(stopped, request, turns, level, attempts, streak, misconceptions, explain) ==
  [stopped |-> stopped, request |-> request, turns |-> turns, level |-> level,
   attempts |-> attempts, streak |-> streak, misconceptions |-> misconceptions,
   sufficient |-> FALSE, priorGap |-> FALSE, explain |-> explain, item |-> FALSE,
   band |-> "none"]

\* Stopped; at the limit; an explanation, a correction, a question, a test,
\* the last hint.
MCSituations ==
  {Situation(TRUE, "", 0, 0, 0, 0, 0, FALSE), Situation(FALSE, "", MaxTurns, 0, 0, 0, 0, FALSE),
   Situation(FALSE, "", 0, 0, 0, 0, 0, TRUE), Situation(FALSE, "", 0, 0, 1, 0, MisconceptionLimit, FALSE),
   Situation(FALSE, "ask", 0, 0, 0, 0, 0, FALSE), Situation(FALSE, "quiz", 0, 0, 0, 0, 0, FALSE),
   Situation(FALSE, "hint", 0, HintMaxLevel - 1, 0, 0, 0, FALSE)}

Condition(group, constrained, retrieval, gap) ==
  [group |-> group, constrained |-> constrained, retrieval |-> retrieval, gap |-> gap]
MCConditions ==
  {Condition("A", TRUE, TRUE, FALSE), Condition("A", FALSE, FALSE, FALSE),
   Condition("B", TRUE, TRUE, FALSE), Condition("B", TRUE, TRUE, TRUE),
   Condition("B", FALSE, TRUE, FALSE)}
-----------------------------------------------------------------------------
CONSTANTS u1, u2, u3, q1, q2, q3, q4

\* Overlapping results; a plan that repeats a query of the round before.
MCFound == {<<u1>>, <<u1, u2>>, <<u2, u3>>}
MCPlans == {<<q1, q2>>, <<q2, q3>>, <<q3, q4>>}

Configuration(kind, api, keys) == [kind |-> kind, api |-> api, keys |-> keys]
MCSettings ==
  {Configuration("none", "auto", {"model"}), Configuration("ollama", "auto", {"ollama"}),
   Configuration("enable", "auto", {"model"}), Configuration("prime", "auto", {"model", "tavily"}),
   Configuration("none", "auto", {"ollama"}), Configuration("responses", "chat_completions", {"tavily"}),
   Configuration("ollama", "auto", {})}
=============================================================================
