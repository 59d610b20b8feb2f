---------------------------- MODULE MCModelCalls ----------------------------
(* Instances of ModelCalls. *)
EXTENDS ModelServices, TLC

CONSTANTS p1, p2, mA, mB, k1

Service(enabled, stream, models, default, manual, ref, reasoning, api) ==
  [enabled |-> enabled, stream |-> stream, models |-> models, default |-> default,
   manual |-> manual, ref |-> ref, reasoning |-> reasoning, api |-> api]

\* One that lists its models, one that does not, one without declared streaming.
MCContents == {Service(TRUE, "yes", {mA, mB}, mA, FALSE, k1, "toggle", "chat"),
               Service(TRUE, "unknown", {}, mB, TRUE, k1, "always", "responses"),
               Service(FALSE, "no", {mB}, mB, TRUE, k1, "unknown", "chat")}

MCInstalled == {p1 :> c @@ p2 :> d : c \in MCContents, d \in MCContents \cup {None}}
MCInstalledOne == {f \in MCInstalled : f[p1].stream = "yes" /\ f[p2] # None /\ f[p2].stream # "yes"}
MCChains == {<<p1, p2>>}

Turn(session, pin, frozen, experiment, fallback, thinking) ==
  [session |-> session, pin |-> pin, model |-> mA, frozen |-> frozen, experiment |-> experiment,
   explicit |-> experiment, fallback |-> fallback, thinking |-> thinking]

\* A study session of today; a chat turn, a research turn, an experiment, study
\* sessions without a service, frozen so or older than that.
MCStudy == {Turn("study", p1, TRUE, FALSE, TRUE, "off")}
MCOptions == MCStudy \cup
  {Turn("chat", p1, TRUE, FALSE, TRUE, "on"), Turn("chat", p1, TRUE, FALSE, FALSE, "default"),
   Turn("study", p1, TRUE, TRUE, TRUE, "off"),
   Turn("study", None, TRUE, FALSE, TRUE, "off"), Turn("study", None, FALSE, FALSE, TRUE, "off")}

MCListed == {<<p1, NoModel>>, <<p1, mA>>}
MCEdited == {c \in MCContents : c.stream = "no"}
=============================================================================
