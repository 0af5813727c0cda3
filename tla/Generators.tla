----------------------------- MODULE Generators -----------------------------
(***************************************************************************)
(* What the commands of kn-next generate from kn-next.config.ts            *)
(* (kn-next/src/generators and config.ts): the adapters that open-next     *)
(* bundles, the environment of the Knative Service, and the objects of the *)
(* cluster.  Of an environment the names are kept, of an object its kind   *)
(* and its name without the application's.                                 *)
(***************************************************************************)
EXTENDS FiniteSets, Naturals

Providers == {"gcs", "s3", "minio", "azure"}
Services  == {"postgres", "redis", "minio"}

\* KnativeNextConfig: the fields that decide about a name.  secrets holds the
\* names that secrets.envMap and secrets.envFrom bind.
Configurations(secretSets) ==
    [storage : Providers, cache : {"redis", "dynamodb", "none"},
     queue : {"kafka", "none", "unset"}, infrastructure : SUBSET Services,
     observability : BOOLEAN, bytecodeCache : BOOLEAN, secrets : secretSets]

Only(condition, set) == IF condition THEN set ELSE {}

----------------------------------------------------------------------------
(* open-next.config.ts *)

\* The incremental cache of a configuration; MinIO is given the one for GCS.
StorageAdapter(config) ==
    IF config.cache = "redis" THEN "redis-cache"
    ELSE CASE config.storage \in {"gcs", "minio"} -> "gcs-cache"
           [] config.storage = "s3"               -> "aws-s3"
           [] config.storage = "azure"            -> "azure-cache"

TagAdapter(config) == IF config.cache = "dynamodb" THEN "aws-dynamodb" ELSE "redis-tag-cache"

\* getQueueAdapter
QueueAdapter(config, enableKafkaQueue) ==
    IF config.queue = "kafka" \/ (config.queue = "unset" /\ enableKafkaQueue)
    THEN "kafka-queue" ELSE "aws-direct"

\* generateOpenNextConfig
OpenNextConfig(config, enableKafkaQueue) ==
    {StorageAdapter(config), TagAdapter(config), QueueAdapter(config, enableKafkaQueue)}

----------------------------------------------------------------------------
(* The environment of the Knative Service *)

\* storageEnvVarGenerators; Azure has none.
StorageEnv(config) ==
    Only(config.storage = "gcs", {"GCS_BUCKET_NAME", "GCS_BUCKET_KEY_PREFIX"})
    \cup Only(config.storage \in {"s3", "minio"}, {"CACHE_BUCKET_NAME", "CACHE_BUCKET_REGION"})

\* cacheEnvVarGenerators
CacheEnv(config) ==
    Only(config.cache = "redis", {"REDIS_URL", "REDIS_KEY_PREFIX"})
    \cup Only(config.cache = "dynamodb", {"CACHE_DYNAMO_TABLE", "CACHE_BUCKET_REGION"})

RequiredEnvVars(config) == StorageEnv(config) \cup CacheEnv(config)

\* What generateInfrastructure returns for a service that it deploys.
ServiceEnv(service) ==
    CASE service = "postgres" -> {"DATABASE_URL"}
      [] service = "redis"    -> {"REDIS_URL"}
      [] service = "minio"    -> {"MINIO_ENDPOINT", "MINIO_ACCESS_KEY", "MINIO_SECRET_KEY"}

InfraEnv(config) == UNION {ServiceEnv(service) : service \in config.infrastructure}

\* The names that generateKnativeManifest puts into the Service.
ServiceEnvironment(config, additionalEnvVars, enableKafkaQueue) ==
    RequiredEnvVars(config) \cup additionalEnvVars \cup config.secrets \cup {"HOSTNAME", "NODE_ENV"}
    \cup Only(enableKafkaQueue, {"KAFKA_BROKER_URL", "KAFKA_REVALIDATION_TOPIC"})
    \cup Only(config.bytecodeCache, {"NODE_COMPILE_CACHE"})
    \cup Only(config.observability, {"KN_APP_NAME"})

----------------------------------------------------------------------------
(* The objects of the cluster *)

Object(kind, name) == [kind |-> kind, name |-> name]

\* A StatefulSet brings the claim of its volumeClaimTemplates along.
PostgresManifest == {Object("service", "postgres"), Object("statefulset", "postgres"),
                     Object("claim", "postgres")}

RedisManifest == {Object("service", "redis"), Object("deployment", "redis")}

MinioManifest == {Object("service", "minio"), Object("statefulset", "minio"),
                  Object("claim", "minio")}

\* The ServiceMonitor, and the dashboard that grafana.enabled leaves on.
ObservabilityManifest == {Object("servicemonitor", "metrics"),
                          Object("configmap", "grafana-dashboard")}

\* The manifests in the order in which generateInfrastructure lists them.
InfraManifests(config) ==
    <<Only("postgres" \in config.infrastructure, PostgresManifest),
      Only("redis" \in config.infrastructure, RedisManifest),
      Only("minio" \in config.infrastructure, MinioManifest),
      Only(config.observability, ObservabilityManifest)>>

\* What comes with the Knative Service in knative-service.yaml.
ManifestObjects(config) ==
    {Object("serviceaccount", "sa")}
    \cup Only(config.bytecodeCache, {Object("claim", "bytecode-cache")})
=============================================================================
