---------------------------- MODULE MCProcesses -----------------------------
(***************************************************************************)
(* The components that run on their own, each in a small instance and one  *)
(* per behaviour: the initial state chooses which, and only its steps are  *)
(* taken.  Their properties are checked together in one run.               *)
(***************************************************************************)
EXTENDS NodeServer, KafkaQueue, GcsCache, BytecodeMetrics, CacheEvents, DeepHealth,
        RedisConnection, ModuleLoader, Bootstrap, Deploy, FileManager

CONSTANTS u1, u2

VARIABLE part    \* the component of this behaviour

Parts == {"server", "queue", "gcs", "metrics", "events", "health", "connection", "loader",
          "boot", "deploy", "files"}

vars == <<part, serverVars, queueVars, gcsVars, metricsVars, eventVars, healthVars,
          connectionVars, loaderVars, bootVars, deployVars, fileVars>>

Init ==
    /\ part \in Parts
    /\ ServerInit /\ QueueInit /\ GcsInit /\ MetricsInit /\ EventsInit /\ HealthInit
    /\ ConnectionInit /\ LoaderInit /\ BootInit /\ DeployInit /\ FileInit
    /\ part # "metrics" => files = 0

Others(p) ==
    /\ part = p /\ UNCHANGED part
    /\ p # "server"     => UNCHANGED serverVars
    /\ p # "queue"      => UNCHANGED queueVars
    /\ p # "gcs"        => UNCHANGED gcsVars
    /\ p # "metrics"    => UNCHANGED metricsVars
    /\ p # "events"     => UNCHANGED eventVars
    /\ p # "health"     => UNCHANGED healthVars
    /\ p # "connection" => UNCHANGED connectionVars
    /\ p # "loader"     => UNCHANGED loaderVars
    /\ p # "boot"       => UNCHANGED bootVars
    /\ p # "deploy"     => UNCHANGED deployVars
    /\ p # "files"      => UNCHANGED fileVars

Next ==
    \/ Others("server") /\ ServerNext
    \/ Others("queue") /\ QueueNext
    \/ Others("gcs") /\ GcsNext
    \/ Others("metrics") /\ MetricsNext
    \/ Others("events") /\ EventsNext
    \/ Others("health") /\ HealthNext
    \/ Others("connection") /\ ConnectionNext
    \/ Others("loader") /\ LoaderNext
    \/ Others("boot") /\ BootNext
    \/ Others("deploy") /\ DeployNext
    \/ Others("files") /\ FileNext

\* The fairness of the behaviour's component; the others take no step.
Fairness ==
    \/ part = "server" /\ ServerFairness
    \/ part = "events" /\ EventsFairness
    \/ part = "health" /\ HealthFairness
    \/ part = "connection" /\ ConnectionFairness
    \/ part = "files" /\ FileFairness
    \/ part \in {"queue", "gcs", "metrics", "loader", "boot", "deploy"}

Spec == Init /\ [][Next]_vars /\ Fairness

----------------------------------------------------------------------------
(* The instances *)

MCNameOf == [u \in {u1, u2} |-> "report"]

\* Three configurations that differ in all that decides about adapters.
MCConfig(provider, cacheProvider, infra) ==
    [storage |-> provider, cache |-> cacheProvider, queue |-> "unset", infrastructure |-> infra,
     observability |-> FALSE, bytecodeCache |-> TRUE, secrets |-> {}]

MCFirstConfig == MCConfig("gcs", "redis", {"postgres"})

MCConfigs == {MCFirstConfig, MCConfig("minio", "none", {"redis"}), MCConfig("s3", "dynamodb", {})}

MCDeployOptions ==
    {{}, {"skip-build"}, {"skip-upload"}, {"tag"}, {"tag", "skip-infra"}, {"namespace"}, {"bucket"},
     {"dry-run"}}

MCBuildOptions == {{}, {"no-kafka", "skip-next"}}
=============================================================================
