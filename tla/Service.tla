------------------------------- MODULE Service -------------------------------
(***************************************************************************)
(* The life of a webhook process: main reads its settings, builds the      *)
(* provider and its API client, starts the health server in a goroutine    *)
(* of its own and serves ExternalDNS.  While it serves, the goroutines of  *)
(* RateLimit make API calls.  Any fatal error ends the process with all of *)
(* them, and the kubelet starts another.                                   *)
(***************************************************************************)
EXTENDS RateLimit

CONSTANTS
  Launches,        \* the ways it may be started
  WriteActions,    \* the API actions that change records
  DefaultAPIRate,  \* 9
  MaxRestarts      \* bound

Settings == {"region", "secretId", "secretKey", "vpcId", "internetEndpoint"}

\* flags, file, env: the settings each source gives a value; file Broken if
\* it cannot be read.  logLevel: whether --log-level names a level.  busy: ports
\* someone else listens on.  oidcWorks: whether the credentials of the pod's role
\* are given out.
Broken == {"broken"}
Launch == [flags : SUBSET Settings, file : SUBSET Settings \cup {Broken},
           env : SUBSET (Settings \cup {"tkeRegion"}), oidc : BOOLEAN, oidcWorks : BOOLEAN,
           apiRate : 0..Second, dryRun : BOOLEAN, logLevel : BOOLEAN,
           busy : SUBSET {"provider", "health"}]

ASSUME DefaultAssumption == DefaultAPIRate \in 1..Second
ASSUME LaunchesAssumption == Launches \subseteq Launch
ASSUME WritesAssumption == WriteActions \subseteq Actions

VARIABLES
  launch,      \* how the process was started
  main,        \* where main is: settings, provider, health, listen, serving, dead
  source,      \* setting -> the source of its value
  health,      \* the health server: off, starting, up
  restarts

processVars == <<launch, main, source, health, restarts>>
serviceVars == <<vars, processVars>>
-----------------------------------------------------------------------------
\* Mutant: the environment is asked before the file, for the key alone.
SourceKeyFromEnvFirst(s) ==
  IF s \in launch.flags THEN "flag"
  ELSE IF s = "secretKey" /\ s \in launch.env THEN "env"
  ELSE IF s \in launch.file THEN "file"
  ELSE IF s \in launch.env THEN "env" ELSE "none"

\* Which source a setting is from: a flag, else the file, else the environment,
\* which has two variables for the region and none for VPC and endpoint.
\* --internet-endpoint counts as given by isFlagSet, the others if not empty.
SourceOf(s) ==
  LET inEnv == s \in launch.env \ {"vpcId", "internetEndpoint"} IN
  IF s \in launch.flags THEN "flag"
  ELSE IF s \in launch.file THEN "file"
  ELSE IF inEnv THEN "env"
  ELSE IF s = "region" /\ "tkeRegion" \in launch.env THEN "tke"
  ELSE "none"

\* Mutant: a key may do without its id.
HasKey == source["secretKey"] # "none"

\* The keys static mode cannot do without.
HasKeys == source["secretId"] # "none" /\ source["secretKey"] # "none"

ServiceInit ==
  /\ Fresh /\ now = 1 /\ rate = DefaultAPIRate
  /\ launch \in Launches
  /\ main = "settings"
  /\ source = [s \in Settings |-> "none"]
  /\ health = "off"
  /\ restarts = 0

\* log.Fatalf: the process is gone, with every goroutine and limiter.
Die ==
  /\ main' = "dead"
  /\ health' = "off"
  /\ UNCHANGED <<launch, source, restarts>>
  /\ limiters' = {} /\ last' = [a \in Actions |-> 0]
  /\ due' = [c \in Callers |-> 0] /\ sent' = [a \in Actions |-> <<>>]
  /\ now' = 1    \* time counts from the start of a process
  /\ UNCHANGED rate

\* main goes on to where, and changes nothing else of the process or its client.
Proceed(where) ==
  /\ main' = where
  /\ UNCHANGED <<launch, restarts, now, limiters, last, due, sent>>

\* The settings, and without keys the end, but for OIDC.
ReadSettings ==
  /\ main = "settings" /\ launch.logLevel /\ launch.file # Broken
  /\ source' = [s \in Settings |-> SourceOf(s)]
  /\ launch.oidc \/ HasKeys'
  /\ Proceed("provider")
  /\ UNCHANGED <<health, rate>>

BadSettings ==
  /\ main = "settings"
  /\ \/ ~launch.logLevel \/ launch.file = Broken
     \/ ~launch.oidc /\ (SourceOf("secretId") = "none" \/ SourceOf("secretKey") = "none")
  /\ Die

\* Mutant: as the flag has it.
RateAsGiven == launch.apiRate

\* NewTencentCloudProvider: a rate of 0 or less, on which the library would
\* panic, is the default.
EffectiveRate == IF launch.apiRate = 0 THEN DefaultAPIRate ELSE launch.apiRate

BuildProvider ==
  /\ main = "provider"
  /\ launch.oidc => launch.oidcWorks
  /\ rate' = EffectiveRate
  /\ Proceed("health")
  /\ UNCHANGED <<source, health>>

NoProvider ==
  /\ main = "provider"
  /\ launch.oidc /\ ~launch.oidcWorks
  /\ Die

\* go func: the health server starts whenever it is scheduled.
StartHealth ==
  /\ main = "health"
  /\ health' = "starting"
  /\ Proceed("listen")
  /\ UNCHANGED <<source, rate>>

HealthListens ==
  /\ health = "starting" /\ "health" \notin launch.busy
  /\ health' = "up"
  /\ UNCHANGED <<vars, launch, main, source, restarts>>

HealthFails ==
  /\ health = "starting" /\ "health" \in launch.busy
  /\ Die

\* StartProviderServer.
ProviderListens ==
  /\ main = "listen" /\ "provider" \notin launch.busy
  /\ Proceed("serving")
  /\ UNCHANGED <<source, health, rate>>

\* Mutant: main hangs when it cannot listen.
ProviderHangs == FALSE

ProviderFails ==
  /\ main = "listen" /\ "provider" \in launch.busy
  /\ Die

\* The process is killed.
Kill == main # "dead" /\ restarts < MaxRestarts /\ Die

\* The kubelet starts it again, perhaps otherwise.
Restart ==
  /\ main = "dead" /\ restarts < MaxRestarts
  /\ restarts' = restarts + 1
  /\ launch' \in Launches
  /\ main' = "settings"
  /\ source' = [s \in Settings |-> "none"]
  /\ UNCHANGED <<health, vars>>

\* An API call of a handler.  In a dry run the read-only service answers writes
\* with nil and nil, which comes to no step.
MakeCall(c, a) ==
  /\ main = "serving"
  /\ ~(launch.dryRun /\ a \in WriteActions)
  /\ Call(c, a)
  /\ UNCHANGED processVars

WakeUp(c) == Go(c) /\ UNCHANGED processVars
TimePasses == main = "serving" /\ Tick /\ UNCHANGED processVars

Main ==
  \/ ReadSettings \/ BadSettings \/ BuildProvider \/ NoProvider
  \/ StartHealth \/ ProviderListens \/ ProviderFails
Health == HealthListens \/ HealthFails

ServiceNext ==
  \/ Main \/ Health \/ Kill \/ Restart
  \/ \E c \in Callers, a \in Actions : MakeCall(c, a)
  \/ \E c \in Callers : WakeUp(c)
  \/ TimePasses

ServiceSpec == ServiceInit /\ [][ServiceNext]_serviceVars
FairServiceSpec ==
  /\ ServiceSpec
  /\ WF_serviceVars(Main)
  /\ WF_serviceVars(Health)
-----------------------------------------------------------------------------
ServiceTypeOK ==
  /\ TypeOK
  /\ launch \in Launch
  /\ main \in {"settings", "provider", "health", "listen", "serving", "dead"}
  /\ source \in [Settings -> {"none", "flag", "file", "env", "tke"}]
  /\ health \in {"off", "starting", "up"}
  /\ main # "serving" => limiters = {}

\* A key is of no use with another's id.  The two halves are looked up on their
\* own (main.go:99, main.go:115), so a source that gives only one may lend it to
\* the other half of another source; when every source gives both or none, they
\* are from one source.
KeysMatch ==
  LET paired(given) == "secretId" \in given <=> "secretKey" \in given IN
  paired(launch.flags) /\ paired(launch.file) /\ paired(launch.env)
    => source["secretId"] = source["secretKey"]

\* The probes of deploy/ ask the health server, which knows nothing of the
\* provider (server.go:125).  What its 200 is worth: main has got as far as a
\* provider with credentials,
HealthyIsConfigured ==
  health = "up" =>
    /\ rate > 0
    /\ IF launch.oidc THEN launch.oidcWorks
       ELSE \A s \in {"secretId", "secretKey"} : source[s] # "none"

\* and it soon serves, or the process ends and the probe fails.
HealthySoonServes == health = "up" ~> main \in {"serving", "dead"}
=============================================================================
