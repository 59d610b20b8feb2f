----------------------------- MODULE MCClientRuns -----------------------------
(* Instances of ClientRuns for TLC. *)
EXTENDS ClientRuns

\* Processes that prepare and remove an environment; two of them are killed.
Preparing == [jobs |-> {"setup", "uninstall"}, installed |-> FALSE, runs |-> 4, kills |-> 2]

\* Processes that use gateways; one of them, or a gateway, is killed.
Using == [jobs |-> {"ask", "command", "web"}, installed |-> TRUE, runs |-> 2, kills |-> 1]

\* A terminal that asks again and again; it, or its gateway, is killed.
Talking == [jobs |-> {"repl"}, installed |-> TRUE, runs |-> 1, kills |-> 1]

\* The first turn streams two pieces at most, the other none.
Streams == [t \in Turns |-> IF t = CHOOSE u \in Turns : TRUE THEN 2 ELSE 0]

MCScenes == {Preparing, Using, Talking}
===============================================================================
