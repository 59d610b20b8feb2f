---------------------------- MODULE MCBatchRuns ----------------------------
(* A measurement, two campaigns and a repair; the condition with retrieval *)
(* has two cells, every other phase one.  A cell ends as planned, or calls *)
(* once too often; one of the preflight may also end without a call.  The  *)
(* full-text batch has a preflight of one cell and a condition of two, and a *)
(* review of up to two requests of the citations, or one each of the      *)
(* retrieval and the questions.                                            *)
EXTENDS BatchRuns

MCPlanned == [p \in Names |-> IF p = "cited" THEN 2 ELSE 1]
Ends(calls, failed) == [calls |-> calls, failed |-> failed]
MCOutcomes == [p \in Names |->
  CASE p = "silent" -> {Ends(0, FALSE), Ends(1, FALSE)}
    [] p = "preflight" -> {Ends(0, FALSE), Ends(1, FALSE), Ends(2, TRUE)}
    [] OTHER -> {Ends(1, FALSE), Ends(2, TRUE)}]
MCLegs == <<[cells |-> 1, asks |-> 1], [cells |-> 2, asks |-> 1]>>
MCCeilings == [preflight |-> 1, formal |-> 3, annotation |-> 2]
MCRequests == {<<"citations", 1>>, <<"citations", 2>>, <<"retrieval", 1>>, <<"questions", 1>>}
MCPairs == [retrieval |-> <<<<0, 2>>>>, questions |-> <<<<0, 3>>>>, citations |-> <<<<0, 1>>>>]
MCFileOrder == <<<<2, 1>>, <<2, 2>>>>
MCWanted == {{}, {"citations"}, {"retrieval", "questions"}}
=============================================================================
