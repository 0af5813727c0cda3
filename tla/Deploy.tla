------------------------------- MODULE Deploy -------------------------------
(***************************************************************************)
(* The commands of kn-next, run one after the other in one workspace:      *)
(* deploy, build and cleanup (kn-next/src/cli, utils/asset-upload.ts).     *)
(* They share the workspace, the registry, the bucket and the cluster, and *)
(* each of them may stop at every step and leave behind what it has done.  *)
(* A build is known by its number, a file by its build and its name.       *)
(***************************************************************************)
EXTENDS Generators, Sequences

CONSTANTS
    Configs,          \* the contents that kn-next.config.ts takes
    FirstConfig,      \* the one for which open-next.config.ts was generated
    DeployOptions,    \* the sets of options that deploy is called with
    BuildOptions,     \* those of build
    Files,            \* the names of a build's assets
    MaxCommands,      \* bound: commands run
    MaxEdits,         \* bound: changes of kn-next.config.ts
    None              \* no image, no release

ASSUME DeployAssumption ==
    /\ MaxCommands \in Nat /\ MaxEdits \in Nat /\ FirstConfig \in Configs
    /\ Configs \subseteq Configurations({{}})
    /\ DeployOptions \subseteq
         SUBSET {"skip-build", "skip-upload", "skip-infra", "dry-run", "tag", "bucket", "namespace"}
    /\ BuildOptions \subseteq SUBSET {"no-kafka", "skip-next"}

VARIABLES
    config,        \* kn-next.config.ts
    openNext,      \* the adapters that open-next.config.ts names
    nextBuild,     \* the number of the build in .next, 0 at first
    output,        \* what .open-next holds: an image to be, or None
    cmd,           \* the running command
    commands, edits,   \* counters for the bounds
    registry,      \* what each tag names
    pushed,        \* history: every image that has been pushed
    abandoned,     \* pushes that go on after their command has failed
    bucket,        \* the files in the bucket that publicUrl names
    objects,       \* the cluster's objects, each with its namespace
    services       \* the Knative Service of each namespace that has one

workspaceVars == <<config, openNext, nextBuild, output, edits>>
registryVars  == <<registry, pushed, abandoned>>
clusterVars   == <<objects, services>>
deployVars    == <<workspaceVars, cmd, commands, registryVars, bucket, clusterVars>>

DeployNamespaces == {"default", "other"}
Tags == 0..MaxCommands

FilesOf(image) == {image.build} \X Files

NoCommand == [kind |-> "none", options |-> {}, at |-> "idle", upload |-> "off", docker |-> "off",
              step |-> 1, env |-> {}, image |-> None, tagUsed |-> FALSE]

DeployInit ==
    /\ config = FirstConfig /\ openNext = OpenNextConfig(FirstConfig, TRUE)
    /\ nextBuild = 0 /\ output = None
    /\ cmd = NoCommand /\ commands = 0 /\ edits = 0
    /\ registry = [t \in Tags |-> None] /\ pushed = {} /\ abandoned = {}
    /\ bucket = {} /\ objects = {}
    /\ services = <<>>

Live == DOMAIN services

Given(option) == option \in cmd.options
Namespace     == IF Given("namespace") THEN "other" ELSE "default"

\* Mutant of Tag: an image is tagged "latest" when no tag is given.
TagLatest == 0

\* The tag given with --tag, or the time, which no other command has.
Tag == IF Given("tag") THEN 0 ELSE commands

EditConfig ==
    /\ cmd.at = "idle" /\ edits < MaxEdits
    /\ edits' = edits + 1
    /\ \E new \in Configs \ {config} : config' = new
    /\ UNCHANGED <<openNext, nextBuild, output, cmd, commands, registryVars, bucket, clusterVars>>

Start(kind, options, at) ==
    /\ cmd.at = "idle" /\ commands < MaxCommands
    /\ commands' = commands + 1
    /\ cmd' = [NoCommand EXCEPT !.kind = kind, !.options = options, !.at = at,
                                !.tagUsed = registry[0] # None \/ abandoned # {}]
    /\ UNCHANGED <<workspaceVars, registryVars, bucket, clusterVars>>

StartCommand ==
    \/ \E options \in DeployOptions :
         Start("deploy", options, IF "skip-build" \in options THEN "entrypoint" ELSE "next")
    \/ \E options \in BuildOptions : Start("build", options, "generate")
    \/ Start("cleanup", {}, "ksvc")

At(place) == cmd.at = place /\ UNCHANGED commands
Goto(place) == cmd' = [cmd EXCEPT !.at = place]

----------------------------------------------------------------------------
(* The build, in the workspace *)

\* kn-next build writes open-next.config.ts; kn-next deploy uses the one it finds.
GenerateOpenNextConfig ==
    /\ At("generate")
    /\ openNext' = OpenNextConfig(config, ~Given("no-kafka"))
    /\ Goto(IF Given("skip-next") THEN "opennext" ELSE "next")
    /\ UNCHANGED <<config, nextBuild, output, edits, registryVars, bucket, clusterVars>>

\* npm run build
NextBuild ==
    /\ At("next")
    /\ nextBuild' = commands
    /\ Goto("opennext")
    /\ UNCHANGED <<config, openNext, output, edits, registryVars, bucket, clusterVars>>

StartTasks(upload, docker) ==
    cmd' = [cmd EXCEPT !.at = "tasks", !.upload = IF upload THEN "bulk" ELSE "off",
                       !.docker = IF docker THEN "build" ELSE "off"]

\* open-next build starts .open-next afresh; it needs a build.
OpenNextBuild ==
    /\ At("opennext") /\ nextBuild # 0
    /\ output' = [build |-> nextBuild, adapters |-> openNext]
    /\ IF cmd.kind = "deploy" THEN Goto("prefix") ELSE StartTasks(TRUE, FALSE)
    /\ UNCHANGED <<config, openNext, nextBuild, edits, registryVars, bucket, clusterVars>>

\* The patches that open-next's output needs.  A file or a directory that is missing or
\* cannot be read or written is passed over, and deploy goes on as if it were patched:
\* the model does not tell a patched output from another, and no more does deploy.
PatchAssetPrefix ==
    /\ At("prefix")
    /\ Goto("patch")
    /\ UNCHANGED <<workspaceVars, registryVars, bucket, clusterVars>>

PatchStandaloneOutput ==
    /\ At("patch")
    /\ Goto("entrypoint")
    /\ UNCHANGED <<workspaceVars, registryVars, bucket, clusterVars>>

\* generateEntrypoint writes into the output, which has to be there.
GenerateEntrypoint ==
    /\ At("entrypoint")
    /\ config.bytecodeCache => output # None
    /\ IF Given("dry-run") THEN Goto("manifest") ELSE StartTasks(~Given("skip-upload"), TRUE)
    /\ UNCHANGED <<workspaceVars, registryVars, bucket, clusterVars>>

----------------------------------------------------------------------------
(* The upload of the assets and the push of the image, side by side *)

\* With --bucket the files go to another bucket than the one that publicUrl names.
Put(files) == bucket' = IF Given("bucket") THEN bucket ELSE bucket \cup files

\* The copy in bulk; for GCS one that leaves files out may still report success.
UploadInBulk ==
    /\ At("tasks") /\ cmd.upload = "bulk" /\ output # None
    /\ \E files \in SUBSET FilesOf(output) :
        /\ Put(files)
        /\ cmd' = [cmd EXCEPT !.upload = IF config.storage = "gcs" THEN "verify"
                                         ELSE IF files = FilesOf(output) THEN "done" ELSE "failed"]
    /\ UNCHANGED <<workspaceVars, registryVars, clusterVars>>

\* Mutant of Retried: the files found missing are reported only.
RetriedNone(missing) == {}

\* The files missing from the listing are copied one by one.
Retried(missing) == missing

VerifyUpload ==
    /\ At("tasks") /\ cmd.upload = "verify"
    /\ Put(Retried(FilesOf(output) \ bucket))
    /\ cmd' = [cmd EXCEPT !.upload = "done"]
    /\ UNCHANGED <<workspaceVars, registryVars, clusterVars>>

\* docker buildx build --push
BuildAndPush ==
    /\ At("tasks") /\ cmd.docker = "build" /\ output # None
    /\ pushed' = pushed \cup {output}
    /\ registry' = [registry EXCEPT ![Tag] = output]
    /\ cmd' = [cmd EXCEPT !.docker = "done", !.image = output]
    /\ UNCHANGED <<workspaceVars, abandoned, bucket, clusterVars>>

HasInfra == config.infrastructure # {} \/ config.observability

AfterTasks == IF cmd.kind = "deploy" /\ HasInfra /\ ~Given("skip-infra") THEN "infra" ELSE "manifest"

\* Mutant of Done: the tasks are started and not awaited.
DoneSoon(task) == task \in {"off", "bulk", "verify", "done"}

Done(task) == task \in {"off", "done"}

\* Promise.all(tasks)
AwaitTasks ==
    /\ At("tasks") /\ Done(cmd.upload) /\ cmd.docker \in {"off", "done"}
    /\ Goto(AfterTasks)
    /\ UNCHANGED <<workspaceVars, registryVars, bucket, clusterVars>>

----------------------------------------------------------------------------
(* The cluster *)

\* One manifest of generateInfrastructure after the other is applied; what is waited
\* for then is the readiness of what they made.
ApplyInfrastructure ==
    LET manifests == InfraManifests(config) IN
    /\ At("infra")
    /\ objects' = objects \cup ({Namespace} \X manifests[cmd.step])
    /\ cmd' = IF cmd.step < Len(manifests)
              THEN [cmd EXCEPT !.step = @ + 1]
              ELSE [cmd EXCEPT !.at = "manifest", !.env = InfraEnv(config)]
    /\ UNCHANGED <<workspaceVars, registryVars, bucket, services>>

\* generateKnativeManifest writes the manifest, which only a deploy applies.
WriteManifest ==
    /\ At("manifest")
    /\ Goto(IF cmd.kind = "deploy" /\ ~Given("dry-run") THEN "apply" ELSE "complete")
    /\ UNCHANGED <<workspaceVars, registryVars, bucket, clusterVars>>

\* Knative makes a revision, which keeps the image that the tag names then, when the
\* Service's template differs from the last one.
ApplyManifest ==
    LET template == [tag |-> Tag, env |-> ServiceEnvironment(config, cmd.env, FALSE)]
        image    == registry[Tag]
    IN
    /\ At("apply")
    /\ services' =
         IF Namespace \in Live /\ services[Namespace].template = template THEN services
         ELSE [n \in Live \cup {Namespace} |->
                 IF n # Namespace THEN services[n]
                 ELSE [template |-> template, image |-> image, bypassed |-> FALSE,
                       waived |-> Given("skip-upload") \/ Given("bucket") \/ image # cmd.image]]
    /\ objects' = objects \cup ({Namespace} \X ManifestObjects(config))
    /\ Goto("url")
    /\ UNCHANGED <<workspaceVars, registryVars, bucket>>

\* kubectl get ksvc
GetUrl ==
    /\ At("url")
    /\ Goto("complete")
    /\ UNCHANGED <<workspaceVars, registryVars, bucket, clusterVars>>

----------------------------------------------------------------------------
(* Cleanup: no command of it names a namespace *)

\* A failure is taken for a Service that is not there, and cleanup goes on.
DeleteService ==
    /\ At("ksvc")
    /\ \E gone \in {{}, {"default"}} :
         services' = [n \in Live \ gone |-> [services[n] EXCEPT !.bypassed = TRUE]]
    /\ Goto("delete")
    /\ UNCHANGED <<workspaceVars, registryVars, bucket, objects>>

\* Mutant of DeletedWith: the claims of a StatefulSet are forgotten.
DeletedWithoutClaims(service) ==
    {o \in PostgresManifest \cup RedisManifest \cup MinioManifest :
       o.name = service /\ o.kind # "claim"}

\* The kinds that cleanup deletes for a service of the infrastructure, all by its name.
DeletedWith(service) ==
    {o \in PostgresManifest \cup RedisManifest \cup MinioManifest :
       /\ o.name = service
       /\ o.kind \in IF service = "redis" THEN {"deployment", "service"}
                     ELSE {"statefulset", "service", "claim"}}

DeleteInfrastructure ==
    LET service == <<"postgres", "redis", "minio">>[cmd.step] IN
    /\ At("delete")
    /\ objects' = IF service \in config.infrastructure
                  THEN objects \ ({"default"} \X DeletedWith(service)) ELSE objects
    /\ cmd' = IF cmd.step < 3 THEN [cmd EXCEPT !.step = @ + 1] ELSE [cmd EXCEPT !.at = "clear"]
    /\ UNCHANGED <<workspaceVars, registryVars, bucket, services>>

\* The removal may stop anywhere: gsutil's failure is ignored, that of another provider's
\* command ends cleanup.
ClearStorage ==
    /\ At("clear")
    /\ \E left \in SUBSET bucket :
        /\ bucket' = left
        /\ Goto(IF left = {} \/ config.storage = "gcs" THEN "complete" ELSE "uncleared")
    /\ UNCHANGED <<workspaceVars, registryVars, clusterVars>>

----------------------------------------------------------------------------
\* A step throws and the process exits; an image that is being built may be pushed yet.
Fail ==
    /\ cmd.at \notin {"idle", "complete"}
    /\ cmd' = NoCommand
    /\ abandoned' \in
         {abandoned} \cup IF cmd.docker = "build" /\ output # None
                          THEN {abandoned \cup {<<Tag, output>>}} ELSE {}
    /\ UNCHANGED <<workspaceVars, commands, registry, pushed, bucket, clusterVars>>

PushAbandoned ==
    /\ \E push \in abandoned :
        /\ abandoned' = abandoned \ {push}
        /\ pushed' = pushed \cup {push[2]}
        /\ registry' = [registry EXCEPT ![push[1]] = push[2]]
    /\ UNCHANGED <<workspaceVars, cmd, commands, bucket, clusterVars>>

FinishCommand ==
    /\ At("complete")
    /\ cmd' = NoCommand
    /\ UNCHANGED <<workspaceVars, registryVars, bucket, clusterVars>>

DeployNext ==
    \/ EditConfig \/ StartCommand
    \/ GenerateOpenNextConfig \/ NextBuild \/ OpenNextBuild
    \/ PatchAssetPrefix \/ PatchStandaloneOutput \/ GenerateEntrypoint
    \/ UploadInBulk \/ VerifyUpload \/ BuildAndPush \/ AwaitTasks
    \/ ApplyInfrastructure \/ WriteManifest \/ ApplyManifest \/ GetUrl
    \/ DeleteService \/ DeleteInfrastructure \/ ClearStorage
    \/ Fail \/ PushAbandoned \/ FinishCommand

DeploySpec == DeployInit /\ [][DeployNext]_deployVars

----------------------------------------------------------------------------
\* What goes live has been pushed, and its assets can be fetched.  A release waives its
\* assets that was deployed with --skip-upload or --bucket, or whose tag an abandoned
\* push has taken over.
Promise == INSTANCE Release WITH
    Images <- 1..MaxCommands, Assets <- (1..MaxCommands) \X Files,
    Namespaces <- DeployNamespaces, NotLive <- None,
    AssetsOf <- [b \in 1..MaxCommands |-> {b} \X Files],
    pushed <- {image.build : image \in pushed},
    assets <- bucket,
    live <- [n \in DeployNamespaces |->
               IF n \in Live THEN [image |-> services[n].image.build, waived |-> services[n].waived]
               ELSE None]

GoesLiveComplete == Promise!ReleaseSpec

\* The assets of a release stay: no later command takes one away from a page that is
\* live, unless cleanup has passed the Service over.
LiveHasAssets ==
    \A n \in Live : \/ FilesOf(services[n].image) \subseteq bucket
                    \/ services[n].waived \/ services[n].bypassed

\* A deploy that reports success has left the Service of its namespace with a revision
\* of its own image, which Knative brings up when it can: deploy does not wait for that.
\* Only a tag that was used before can keep the old revision, or bring another image.
CompletedIsLive ==
    cmd.at = "complete" /\ cmd.kind = "deploy" /\ ~Given("dry-run") =>
        \/ Namespace \in Live /\ services[Namespace].image = cmd.image
        \/ Given("tag") /\ cmd.tagUsed

\* A cleanup that reports success leaves nothing of the services that the configuration
\* lists, nor a file in the bucket, but for one of GCS, whose removal may have failed
\* unseen (cleanup.ts:86).
CleanedUp ==
    cmd.at = "complete" /\ cmd.kind = "cleanup" =>
        /\ bucket = {} \/ config.storage = "gcs"
        /\ \A o \in objects : o[1] = "default" => o[2].name \notin config.infrastructure
=============================================================================
