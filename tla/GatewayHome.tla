------------------------------ MODULE GatewayHome ------------------------------
(* How a command-line process finds, starts and stops the gateway of a home  *)
(* directory: RuntimeSupervisor and gateway.json (packages/client_sdk/node). *)
(*                                                                           *)
(* gateway.json names one gateway.  A process that finds it healthy uses it; *)
(* otherwise it starts a gateway on a free port, waits until that one is     *)
(* healthy and writes the file.  Each start has its own port and its own     *)
(* owner token, so one name stands for both.                                 *)
EXTENDS CliProcesses

VARIABLES
  file,        \* gateway.json: the gateway it names
  gateway,     \* each start: "unused", "starting", "up" or "down"
  runtime,     \* each supervisor: where it is in start or stop
  token,       \* each supervisor: the gateway it started (process, ownerToken)
  url          \* each supervisor: the gateway in use (current.baseUrl)

homeVars == <<file, gateway, runtime, token, url>>

HomeInit ==
  /\ file = None
  /\ gateway = [g \in Gateways |-> "unused"]
  /\ runtime = [p \in Clis |-> "STOPPED"]
  /\ token = [p \in Clis |-> None]
  /\ url = [p \in Clis |-> None]

HomeTypeOK ==
  /\ file \in Gateways \cup {None}
  /\ gateway \in [Gateways -> {"unused", "starting", "up", "down"}]
  /\ runtime \in [Clis -> {"STOPPED", "probing", "spawning", "STARTING", "READY", "unlinking"}]
  /\ token \in [Clis -> Gateways \cup {None}]
  /\ url \in [Clis -> Gateways \cup {None}]

At(p, state) == runtime' = [runtime EXCEPT ![p] = state]

gatewayHealthy(g) == g # None /\ gateway[g] = "up"

(* start ------------------------------------------------------------------- *)

\* readGateway, then a request to /health of what it names.
ReadGateway(p) ==
  /\ runtime[p] = "STOPPED"
  /\ At(p, "probing")
  /\ url' = [url EXCEPT ![p] = file]
  /\ UNCHANGED <<file, gateway, token>>

Probe(p) ==
  /\ runtime[p] = "probing"
  /\ IF gatewayHealthy(url[p])
     THEN At(p, "READY") /\ UNCHANGED url
     ELSE At(p, "spawning") /\ url' = [url EXCEPT ![p] = None]
  /\ UNCHANGED <<file, gateway, token>>

\* --api-url or DEEPPROF_API_URL: that gateway or none.
UseConfigured(p, g) ==
  /\ runtime[p] = "STOPPED" /\ gatewayHealthy(g)
  /\ At(p, "READY")
  /\ url' = [url EXCEPT ![p] = g]
  /\ UNCHANGED <<file, gateway, token>>

Spawn(p) ==
  /\ runtime[p] = "spawning"
  /\ \E g \in Gateways : gateway[g] = "unused"
  /\ LET new == CHOOSE g \in Gateways : gateway[g] = "unused"
     IN  /\ gateway' = [gateway EXCEPT ![new] = "starting"]
         /\ token' = [token EXCEPT ![p] = new]
         /\ url' = [url EXCEPT ![p] = new]
  /\ At(p, "STARTING")
  /\ UNCHANGED file

\* writeGateway writes beside the file and renames.
BecomeReady(p) ==
  /\ runtime[p] = "STARTING" /\ gatewayHealthy(token[p])
  /\ file' = token[p]
  /\ At(p, "READY")
  /\ UNCHANGED <<gateway, token, url>>

(* stop -------------------------------------------------------------------- *)

Killed(g) == IF g = None THEN gateway ELSE [gateway EXCEPT ![g] = "down"]

\* Who started no gateway only forgets the one it used.
Stop(p) ==
  /\ runtime[p] \in {"STARTING", "READY"}
  /\ gateway' = Killed(token[p])
  /\ url' = [url EXCEPT ![p] = None]
  /\ IF token[p] # None /\ file = token[p]
     THEN At(p, "unlinking") /\ UNCHANGED token
     ELSE At(p, "STOPPED") /\ token' = [token EXCEPT ![p] = None]
  /\ UNCHANGED file

\* removeGateway read its own token: it unlinks the file that is there now.
Unlink(p) ==
  /\ runtime[p] = "unlinking"
  /\ file' = None
  /\ At(p, "STOPPED")
  /\ token' = [token EXCEPT ![p] = None]
  /\ UNCHANGED <<gateway, url>>

SupervisorSteps(p) ==
  ReadGateway(p) \/ Probe(p) \/ Spawn(p) \/ BecomeReady(p)

(* The gateways, and a process that is killed ------------------------------ *)

ServeRequests(g) ==
  /\ gateway[g] = "starting"
  /\ gateway' = [gateway EXCEPT ![g] = "up"]
  /\ UNCHANGED <<file, runtime, token, url>>

GatewayDies(g) ==
  /\ gateway[g] \in {"starting", "up"}
  /\ gateway' = Killed(g)
  /\ UNCHANGED <<file, runtime, token, url>>

\* The gateway it started goes on, and its record stays.
KillSupervisor(p) ==
  /\ At(p, "STOPPED")
  /\ token' = [token EXCEPT ![p] = None]
  /\ url' = [url EXCEPT ![p] = None]
  /\ UNCHANGED <<file, gateway>>
===============================================================================
