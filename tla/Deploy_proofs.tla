---------------------------- MODULE Deploy_proofs ----------------------------
(***************************************************************************)
(* Proofs about the commands of kn-next, for any configurations, options,  *)
(* files and numbers of commands: what goes live has been pushed and has   *)
(* its assets (Deploy implements Release), and no later command takes the  *)
(* assets away; a deploy that completes has brought its image; and a       *)
(* cleanup that completes has left nothing of the infrastructure.          *)
(***************************************************************************)
EXTENDS Deploy, TLAPS

CmdFields == {"kind", "options", "at", "upload", "docker", "step", "env", "image", "tagUsed"}

IsImage(image) == "build" \in DOMAIN image /\ image.build \in 1..MaxCommands

\* A running command has a number, and a build is known by that of its command.
Numbered ==
    /\ CmdFields \subseteq DOMAIN cmd
    /\ commands \in 0..MaxCommands
    /\ cmd.at # "idle" => commands # 0
    /\ nextBuild \in 0..MaxCommands
    /\ output = None \/ IsImage(output)
    /\ cmd.at \in {"prefix", "patch"} => IsImage(output)
    /\ \A image \in pushed : IsImage(image)

\* Tags are those of commands, also for a push whose command has failed.
Tagged ==
    /\ DOMAIN registry = Tags
    /\ \A push \in abandoned : push[1] \in Tags /\ IsImage(push[2])

\* What a finished upload has left in the bucket, and a finished push in the
\* registry: the build in the workspace, which nobody replaces meanwhile.
TasksLeave ==
    /\ cmd.at \notin {"tasks", "infra", "manifest", "apply", "url", "complete"} =>
         cmd.upload = "off" /\ cmd.docker = "off"
    /\ cmd.upload \in {"verify", "done"} => IsImage(output)
    /\ cmd.upload = "done" => Given("bucket") \/ FilesOf(output) \subseteq bucket
    /\ cmd.docker = "done" => registry[Tag] \in pushed /\ cmd.image = output

\* A deploy applies its manifest only after both.
AppliesAfterTasks ==
    /\ cmd.at = "tasks" /\ cmd.kind = "deploy" =>
         cmd.docker # "off" /\ (Given("skip-upload") \/ cmd.upload # "off")
    /\ cmd.at \in {"infra", "manifest", "apply"} /\ cmd.kind = "deploy" /\ ~Given("dry-run") =>
         cmd.docker = "done" /\ (Given("skip-upload") \/ cmd.upload = "done")
    /\ cmd.at = "apply" => cmd.kind = "deploy" /\ ~Given("dry-run")

CommandInv == Numbered /\ Tagged /\ TasksLeave /\ AppliesAfterTasks

----------------------------------------------------------------------------
(* What the helpers leave alone *)

LEMMA TagIsOne ==
  ASSUME CommandInv, cmd.at # "idle"
  PROVE  Tag \in Tags /\ commands \in 1..MaxCommands
  BY DeployAssumption DEF CommandInv, Numbered, Tag, Tags

\* The command goes on at another place, and nothing else of it changes.
LEMMA GotoLeaves ==
  ASSUME CommandInv, NEW place, Goto(place)
  PROVE  /\ CmdFields \subseteq DOMAIN cmd' /\ cmd'.at = place
         /\ cmd'.kind = cmd.kind /\ cmd'.options = cmd.options /\ cmd'.upload = cmd.upload
         /\ cmd'.docker = cmd.docker /\ cmd'.image = cmd.image
  BY DEF CommandInv, Numbered, CmdFields, Goto

\* A step outside of the tasks: workspace, registry and bucket stay, and the
\* command goes on at another place.
LEMMA GotoKeepsInv ==
  ASSUME CommandInv, NEW place, Goto(place), cmd.at # "idle",
         UNCHANGED <<nextBuild, output, commands, registryVars, bucket>>,
         place \notin {"idle", "prefix", "patch", "tasks"},
         place \notin {"infra", "manifest", "apply", "url", "complete"} =>
           cmd.upload = "off" /\ cmd.docker = "off",
         place \in {"infra", "manifest", "apply"} /\ cmd.kind = "deploy" /\ ~Given("dry-run") =>
           cmd.docker = "done" /\ (Given("skip-upload") \/ cmd.upload = "done"),
         place = "apply" => cmd.kind = "deploy" /\ ~Given("dry-run")
  PROVE  CommandInv'
<1>1. /\ CmdFields \subseteq DOMAIN cmd' /\ cmd'.at = place
      /\ cmd'.kind = cmd.kind /\ cmd'.options = cmd.options /\ cmd'.upload = cmd.upload
      /\ cmd'.docker = cmd.docker /\ cmd'.image = cmd.image
  BY GotoLeaves
<1>2. Numbered' /\ Tagged'
  BY <1>1 DEF CommandInv, Numbered, Tagged, registryVars, IsImage, Tags
<1>3. TasksLeave'
  BY <1>1 DEF CommandInv, TasksLeave, registryVars, IsImage, Tag, Given, FilesOf
<1>4. AppliesAfterTasks'
  BY <1>1 DEF AppliesAfterTasks, Given
<1> QED BY <1>2, <1>3, <1>4 DEF CommandInv

\* A step that leaves the command, its tags and the workspace's output alone.
LEMMA IdleKeepsInv ==
  ASSUME CommandInv, UNCHANGED <<nextBuild, output, cmd, commands, registryVars, bucket>>
  PROVE  CommandInv'
  BY DEF CommandInv, Numbered, Tagged, TasksLeave, AppliesAfterTasks, registryVars, IsImage, Tags,
         Tag, Given, FilesOf

\* No command runs.
LEMMA NoCommandIsIdle ==
  /\ CmdFields \subseteq DOMAIN NoCommand
  /\ NoCommand.at = "idle" /\ NoCommand.upload = "off" /\ NoCommand.docker = "off"
  BY DEF NoCommand, CmdFields

----------------------------------------------------------------------------
(* CommandInv is an invariant *)

LEMMA CommandInvInit == DeployInit => CommandInv
  BY NoCommandIsIdle, DeployAssumption
     DEF DeployInit, CommandInv, Numbered, Tagged, TasksLeave, AppliesAfterTasks, Tags

LEMMA StartKeepsInv == CommandInv /\ StartCommand => CommandInv'
<1> SUFFICES ASSUME CommandInv, NEW kind, NEW options,
                    NEW at \in {"entrypoint", "next", "generate", "ksvc"}, Start(kind, options, at)
             PROVE  CommandInv'
  BY DEF StartCommand
<1>1. /\ cmd.at = "idle" /\ commands < MaxCommands /\ commands' = commands + 1
      /\ UNCHANGED <<nextBuild, output, registryVars, bucket>>
  BY DEF Start, workspaceVars
<1>2. CmdFields \subseteq DOMAIN cmd' /\ cmd'.at = at /\ cmd'.upload = "off" /\ cmd'.docker = "off"
  BY DEF Start, NoCommand, CmdFields
<1>3. commands' \in 1..MaxCommands
  BY <1>1, DeployAssumption DEF CommandInv, Numbered
<1> QED BY <1>1, <1>2, <1>3 DEF CommandInv, Numbered, Tagged, TasksLeave, AppliesAfterTasks,
           registryVars, IsImage, Tags

LEMMA BuildKeepsInv ==
  CommandInv /\ (GenerateOpenNextConfig \/ NextBuild \/ OpenNextBuild \/ PatchAssetPrefix
                 \/ PatchStandaloneOutput \/ GenerateEntrypoint) => CommandInv'
<1> SUFFICES ASSUME CommandInv PROVE
      (GenerateOpenNextConfig \/ NextBuild \/ OpenNextBuild \/ PatchAssetPrefix
       \/ PatchStandaloneOutput \/ GenerateEntrypoint) => CommandInv'
  OBVIOUS
<1>1. ASSUME GenerateOpenNextConfig PROVE CommandInv'
  <2> DEFINE place == IF Given("skip-next") THEN "opennext" ELSE "next"
  <2>1. cmd.at = "generate" /\ Goto(place) /\ place \in {"opennext", "next"}
        /\ UNCHANGED <<nextBuild, output, commands, registryVars, bucket>>
    BY <1>1 DEF GenerateOpenNextConfig, At
  <2>2. cmd.upload = "off" /\ cmd.docker = "off"
    BY <2>1 DEF CommandInv, TasksLeave
  <2> HIDE DEF place
  <2> QED BY <2>1, <2>2, GotoKeepsInv
<1>2. ASSUME NextBuild PROVE CommandInv'
  <2>1. cmd.at = "next" /\ Goto("opennext") /\ nextBuild' = commands
        /\ UNCHANGED <<output, commands, registryVars, bucket>>
    BY <1>2 DEF NextBuild, At
  <2>2. cmd.upload = "off" /\ cmd.docker = "off"
    BY <2>1 DEF CommandInv, TasksLeave
  <2>3. /\ CmdFields \subseteq DOMAIN cmd' /\ cmd'.at = "opennext"
        /\ cmd'.upload = cmd.upload /\ cmd'.docker = cmd.docker
    BY <2>1, GotoLeaves
  <2> QED BY <2>1, <2>2, <2>3 DEF CommandInv, Numbered, Tagged, TasksLeave, AppliesAfterTasks,
             registryVars, IsImage, Tags
<1>3. ASSUME OpenNextBuild PROVE CommandInv'
  <2>1. /\ cmd.at = "opennext" /\ nextBuild # 0
        /\ output' = [build |-> nextBuild, adapters |-> openNext]
        /\ UNCHANGED <<nextBuild, commands, registryVars, bucket>>
    BY <1>3 DEF OpenNextBuild, At
  <2>2. cmd.upload = "off" /\ cmd.docker = "off"
    BY <2>1 DEF CommandInv, TasksLeave
  <2>3. IsImage(output)'
    BY <2>1, DeployAssumption DEF CommandInv, Numbered, IsImage
  <2>4. CASE cmd.kind = "deploy"
    <3>1. /\ CmdFields \subseteq DOMAIN cmd' /\ cmd'.at = "prefix"
          /\ cmd'.upload = cmd.upload /\ cmd'.docker = cmd.docker
      BY <1>3, <2>4, GotoLeaves DEF OpenNextBuild
    <3> QED BY <2>1, <2>2, <2>3, <3>1 DEF CommandInv, Numbered, Tagged, TasksLeave,
               AppliesAfterTasks, registryVars, IsImage, Tags
  <2>5. CASE cmd.kind # "deploy"
    <3>1. /\ CmdFields \subseteq DOMAIN cmd' /\ cmd'.at = "tasks" /\ cmd'.kind # "deploy"
          /\ cmd'.upload = "bulk" /\ cmd'.docker = "off"
      BY <1>3, <2>5 DEF OpenNextBuild, StartTasks, CommandInv, Numbered, CmdFields
    <3> QED BY <2>1, <2>3, <3>1 DEF CommandInv, Numbered, Tagged, TasksLeave,
               AppliesAfterTasks, registryVars, IsImage, Tags
  <2> QED BY <2>4, <2>5
<1>4. ASSUME PatchAssetPrefix \/ PatchStandaloneOutput PROVE CommandInv'
  <2>1. PICK place \in {"patch", "entrypoint"} :
          /\ cmd.at \in {"prefix", "patch"} /\ Goto(place)
          /\ UNCHANGED <<nextBuild, output, commands, registryVars, bucket>>
    BY <1>4 DEF PatchAssetPrefix, PatchStandaloneOutput, At, workspaceVars
  <2>2. cmd.upload = "off" /\ cmd.docker = "off" /\ IsImage(output)
    BY <2>1 DEF CommandInv, Numbered, TasksLeave
  <2>3. /\ CmdFields \subseteq DOMAIN cmd' /\ cmd'.at = place
        /\ cmd'.upload = cmd.upload /\ cmd'.docker = cmd.docker
    BY <2>1, GotoLeaves
  <2> QED BY <2>1, <2>2, <2>3 DEF CommandInv, Numbered, Tagged, TasksLeave, AppliesAfterTasks,
             registryVars, IsImage, Tags
<1>5. ASSUME GenerateEntrypoint PROVE CommandInv'
  <2>1. cmd.at = "entrypoint" /\ UNCHANGED <<nextBuild, output, commands, registryVars, bucket>>
    BY <1>5 DEF GenerateEntrypoint, At, workspaceVars
  <2>2. cmd.upload = "off" /\ cmd.docker = "off"
    BY <2>1 DEF CommandInv, TasksLeave
  <2>3. CASE Given("dry-run")
    BY <1>5, <2>1, <2>2, <2>3, GotoKeepsInv DEF GenerateEntrypoint
  <2>4. CASE ~Given("dry-run")
    <3>1. /\ CmdFields \subseteq DOMAIN cmd' /\ cmd'.at = "tasks" /\ cmd'.options = cmd.options
          /\ cmd'.upload = (IF Given("skip-upload") THEN "off" ELSE "bulk") /\ cmd'.docker = "build"
      BY <1>5, <2>4 DEF GenerateEntrypoint, StartTasks, CommandInv, Numbered, CmdFields
    <3>2. cmd'.upload \in {"off", "bulk"} /\ (Given("skip-upload")' \/ cmd'.upload # "off")
      BY <3>1 DEF Given
    <3> QED BY <2>1, <3>1, <3>2 DEF CommandInv, Numbered, Tagged, TasksLeave, AppliesAfterTasks,
               registryVars, IsImage, Tags
  <2> QED BY <2>3, <2>4
<1> QED BY <1>1, <1>2, <1>3, <1>4, <1>5

LEMMA TasksKeepInv ==
  CommandInv /\ (UploadInBulk \/ VerifyUpload \/ BuildAndPush \/ AwaitTasks) => CommandInv'
<1> SUFFICES ASSUME CommandInv PROVE
      (UploadInBulk \/ VerifyUpload \/ BuildAndPush \/ AwaitTasks) => CommandInv'
  OBVIOUS
<1>1. ASSUME NEW files, Put(files), NEW upload \in {"verify", "done", "failed"}, IsImage(output),
             cmd.at = "tasks", cmd.upload # "off", cmd' = [cmd EXCEPT !.upload = upload],
             upload = "done" => Given("bucket") \/ FilesOf(output) \subseteq bucket',
             UNCHANGED <<workspaceVars, commands, registryVars>>
      PROVE  CommandInv'
  <2>1. /\ CmdFields \subseteq DOMAIN cmd' /\ cmd'.at = "tasks" /\ cmd'.upload = upload
        /\ cmd'.kind = cmd.kind /\ cmd'.options = cmd.options
        /\ cmd'.docker = cmd.docker /\ cmd'.image = cmd.image
    BY <1>1 DEF CommandInv, Numbered, CmdFields
  <2>2. Numbered' /\ Tagged'
    BY <1>1, <2>1 DEF CommandInv, Numbered, Tagged, workspaceVars, registryVars, IsImage, Tags
  <2>3. TasksLeave'
    BY <1>1, <2>1 DEF CommandInv, TasksLeave, workspaceVars, registryVars, IsImage, Tag, Given, FilesOf
  <2>4. AppliesAfterTasks'
    BY <1>1, <2>1 DEF CommandInv, AppliesAfterTasks, Given
  <2> QED BY <2>2, <2>3, <2>4 DEF CommandInv
<1>2. ASSUME UploadInBulk PROVE CommandInv'
  <2>1. PICK files \in SUBSET FilesOf(output) :
          /\ Put(files)
          /\ cmd' = [cmd EXCEPT !.upload = IF config.storage = "gcs" THEN "verify"
                                           ELSE IF files = FilesOf(output) THEN "done" ELSE "failed"]
    BY <1>2 DEF UploadInBulk
  <2> DEFINE upload == IF config.storage = "gcs" THEN "verify"
                       ELSE IF files = FilesOf(output) THEN "done" ELSE "failed"
  <2>2. /\ cmd.at = "tasks" /\ cmd.upload = "bulk" /\ IsImage(output)
        /\ UNCHANGED <<workspaceVars, commands, registryVars>>
    BY <1>2 DEF UploadInBulk, At, CommandInv, Numbered
  <2>3. upload = "done" => Given("bucket") \/ FilesOf(output) \subseteq bucket'
    BY <2>1 DEF Put
  <2>4. upload \in {"verify", "done", "failed"}
    OBVIOUS
  <2>5. cmd' = [cmd EXCEPT !.upload = upload]
    BY <2>1
  <2> HIDE DEF upload
  <2> QED BY <1>1, <2>1, <2>2, <2>3, <2>4, <2>5
<1>3. ASSUME VerifyUpload PROVE CommandInv'
  <2>1. /\ Put(FilesOf(output) \ bucket) /\ cmd' = [cmd EXCEPT !.upload = "done"]
        /\ cmd.at = "tasks" /\ cmd.upload = "verify"
        /\ UNCHANGED <<workspaceVars, commands, registryVars>>
    BY <1>3 DEF VerifyUpload, At, Retried
  <2>2. Given("bucket") \/ FilesOf(output) \subseteq bucket'
    BY <2>1 DEF Put
  <2>3. IsImage(output)
    BY <2>1 DEF CommandInv, TasksLeave
  <2> QED BY <1>1, <2>1, <2>2, <2>3
<1>4. ASSUME BuildAndPush PROVE CommandInv'
  <2>1. /\ cmd.at = "tasks" /\ cmd.docker = "build" /\ output # None
        /\ pushed' = pushed \cup {output} /\ registry' = [registry EXCEPT ![Tag] = output]
        /\ cmd' = [cmd EXCEPT !.docker = "done", !.image = output]
        /\ UNCHANGED <<nextBuild, output, commands, abandoned, bucket>>
    BY <1>4 DEF BuildAndPush, At, workspaceVars
  <2>2. IsImage(output) /\ Tag \in Tags
    BY <2>1, TagIsOne DEF CommandInv, Numbered
  <2>3. /\ CmdFields \subseteq DOMAIN cmd' /\ cmd'.at = "tasks" /\ cmd'.docker = "done"
        /\ cmd'.image = output /\ cmd'.upload = cmd.upload
        /\ cmd'.kind = cmd.kind /\ cmd'.options = cmd.options
    BY <2>1 DEF CommandInv, Numbered, CmdFields
  <2>4. Numbered' /\ Tagged'
    BY <2>1, <2>2, <2>3 DEF CommandInv, Numbered, Tagged, IsImage, Tags
  <2>5. Tag' = Tag /\ registry'[Tag] = output
    BY <2>1, <2>2, <2>3 DEF CommandInv, Tagged, Tag, Given
  <2>6. TasksLeave'
    BY <2>1, <2>2, <2>3, <2>5 DEF CommandInv, TasksLeave, IsImage, Given, FilesOf
  <2>7. AppliesAfterTasks'
    BY <2>1, <2>3 DEF CommandInv, AppliesAfterTasks, Given
  <2> QED BY <2>4, <2>6, <2>7 DEF CommandInv
<1>5. ASSUME AwaitTasks PROVE CommandInv'
  <2>1. /\ cmd.at = "tasks" /\ Goto(AfterTasks) /\ AfterTasks \in {"infra", "manifest"}
        /\ cmd.upload \in {"off", "done"} /\ cmd.docker \in {"off", "done"}
        /\ UNCHANGED <<nextBuild, output, commands, registryVars, bucket>>
    BY <1>5 DEF AwaitTasks, At, AfterTasks, Done, workspaceVars
  <2>2. cmd.kind = "deploy" => cmd.docker = "done" /\ (Given("skip-upload") \/ cmd.upload = "done")
    BY <2>1 DEF CommandInv, AppliesAfterTasks
  <2> QED BY <2>1, <2>2, GotoKeepsInv
<1> QED BY <1>2, <1>3, <1>4, <1>5

LEMMA ClusterKeepsInv ==
  CommandInv /\ (ApplyInfrastructure \/ WriteManifest \/ ApplyManifest \/ GetUrl
                 \/ DeleteService \/ DeleteInfrastructure \/ ClearStorage) => CommandInv'
<1> SUFFICES ASSUME CommandInv PROVE
      (ApplyInfrastructure \/ WriteManifest \/ ApplyManifest \/ GetUrl
       \/ DeleteService \/ DeleteInfrastructure \/ ClearStorage) => CommandInv'
  OBVIOUS
<1>1. ASSUME CmdFields \subseteq DOMAIN cmd', cmd'.kind = cmd.kind, cmd'.options = cmd.options,
             cmd'.upload = cmd.upload, cmd'.docker = cmd.docker, cmd'.image = cmd.image,
             \/ cmd.at = "infra" /\ cmd'.at \in {"infra", "manifest"}
             \/ cmd.at = "delete" /\ cmd'.at \in {"delete", "clear"},
             UNCHANGED <<workspaceVars, commands, registryVars, bucket>>
      PROVE  CommandInv'
  <2>1. Numbered' /\ Tagged'
    BY <1>1 DEF CommandInv, Numbered, Tagged, workspaceVars, registryVars, IsImage, Tags
  <2>2. TasksLeave'
    BY <1>1 DEF CommandInv, TasksLeave, workspaceVars, registryVars, IsImage, Tag, Given, FilesOf
  <2>3. AppliesAfterTasks'
    BY <1>1 DEF CommandInv, AppliesAfterTasks, Given
  <2> QED BY <2>1, <2>2, <2>3 DEF CommandInv
<1>2. ASSUME ApplyInfrastructure PROVE CommandInv'
  <2>1. /\ cmd.at = "infra" /\ UNCHANGED <<workspaceVars, commands, registryVars, bucket>>
        /\ \/ cmd' = [cmd EXCEPT !.step = @ + 1]
           \/ cmd' = [cmd EXCEPT !.at = "manifest", !.env = InfraEnv(config)]
    BY <1>2 DEF ApplyInfrastructure, At
  <2>2. /\ CmdFields \subseteq DOMAIN cmd' /\ cmd'.at \in {"infra", "manifest"}
        /\ cmd'.kind = cmd.kind /\ cmd'.options = cmd.options /\ cmd'.upload = cmd.upload
        /\ cmd'.docker = cmd.docker /\ cmd'.image = cmd.image
    BY <2>1 DEF CommandInv, Numbered, CmdFields
  <2> QED BY <1>1, <2>1, <2>2
<1>3. ASSUME DeleteInfrastructure PROVE CommandInv'
  <2>1. /\ cmd.at = "delete" /\ UNCHANGED <<workspaceVars, commands, registryVars, bucket>>
        /\ \/ cmd' = [cmd EXCEPT !.step = @ + 1]
           \/ cmd' = [cmd EXCEPT !.at = "clear"]
    BY <1>3 DEF DeleteInfrastructure, At
  <2>2. /\ CmdFields \subseteq DOMAIN cmd' /\ cmd'.at \in {"delete", "clear"}
        /\ cmd'.kind = cmd.kind /\ cmd'.options = cmd.options /\ cmd'.upload = cmd.upload
        /\ cmd'.docker = cmd.docker /\ cmd'.image = cmd.image
    BY <2>1 DEF CommandInv, Numbered, CmdFields
  <2> QED BY <1>1, <2>1, <2>2
<1>4. ASSUME WriteManifest PROVE CommandInv'
  <2> DEFINE place == IF cmd.kind = "deploy" /\ ~Given("dry-run") THEN "apply" ELSE "complete"
  <2>1. /\ cmd.at = "manifest" /\ Goto(place) /\ place \in {"apply", "complete"}
        /\ UNCHANGED <<nextBuild, output, commands, registryVars, bucket>>
    BY <1>4 DEF WriteManifest, At, workspaceVars
  <2>2. place = "apply" => cmd.kind = "deploy" /\ ~Given("dry-run")
    OBVIOUS
  <2>3. cmd.kind = "deploy" /\ ~Given("dry-run") =>
          cmd.docker = "done" /\ (Given("skip-upload") \/ cmd.upload = "done")
    BY <2>1 DEF CommandInv, AppliesAfterTasks
  <2> HIDE DEF place
  <2> QED BY <2>1, <2>2, <2>3, GotoKeepsInv
<1>5. ASSUME ApplyManifest PROVE CommandInv'
  <2>1. cmd.at = "apply" /\ Goto("url") /\ UNCHANGED <<nextBuild, output, commands, registryVars, bucket>>
    BY <1>5 DEF ApplyManifest, At, workspaceVars
  <2> QED BY <2>1, GotoKeepsInv
<1>6. ASSUME GetUrl PROVE CommandInv'
  <2>1. cmd.at = "url" /\ Goto("complete") /\ UNCHANGED <<nextBuild, output, commands, registryVars, bucket>>
    BY <1>6 DEF GetUrl, At, workspaceVars
  <2> QED BY <2>1, GotoKeepsInv
<1>7. ASSUME DeleteService PROVE CommandInv'
  <2>1. cmd.at = "ksvc" /\ Goto("delete") /\ UNCHANGED <<nextBuild, output, commands, registryVars, bucket>>
    BY <1>7 DEF DeleteService, At, workspaceVars
  <2>2. cmd.upload = "off" /\ cmd.docker = "off"
    BY <2>1 DEF CommandInv, TasksLeave
  <2> QED BY <2>1, <2>2, GotoKeepsInv
<1>8. ASSUME ClearStorage PROVE CommandInv'
  <2>1. PICK place \in {"complete", "uncleared"} :
          cmd.at = "clear" /\ Goto(place) /\ UNCHANGED <<nextBuild, output, commands, registryVars>>
    BY <1>8 DEF ClearStorage, At, workspaceVars
  <2>2. cmd.upload = "off" /\ cmd.docker = "off"
    BY <2>1 DEF CommandInv, TasksLeave
  <2>3. /\ CmdFields \subseteq DOMAIN cmd' /\ cmd'.at = place
        /\ cmd'.upload = cmd.upload /\ cmd'.docker = cmd.docker
    BY <2>1, GotoLeaves
  <2> QED BY <2>1, <2>2, <2>3 DEF CommandInv, Numbered, Tagged, TasksLeave, AppliesAfterTasks,
             registryVars, IsImage, Tags
<1> QED BY <1>2, <1>3, <1>4, <1>5, <1>6, <1>7, <1>8

LEMMA EndsKeepInv == CommandInv /\ (Fail \/ PushAbandoned \/ FinishCommand) => CommandInv'
<1> SUFFICES ASSUME CommandInv PROVE (Fail \/ PushAbandoned \/ FinishCommand) => CommandInv'
  OBVIOUS
<1>1. ASSUME Fail PROVE CommandInv'
  <2>1. /\ cmd.at # "idle" /\ cmd' = NoCommand
        /\ UNCHANGED <<nextBuild, output, commands, registry, pushed, bucket>>
        /\ abandoned' \subseteq abandoned \cup (IF output # None THEN {<<Tag, output>>} ELSE {})
    BY <1>1 DEF Fail, workspaceVars
  <2>2. Tagged'
    <3> SUFFICES ASSUME NEW push \in abandoned' PROVE push[1] \in Tags' /\ IsImage(push[2])
      BY <2>1 DEF CommandInv, Tagged, IsImage, Tags
    <3>1. CASE push \in abandoned
      BY <3>1 DEF CommandInv, Tagged, Tags
    <3>2. CASE output # None /\ push = <<Tag, output>>
      BY <2>1, <3>2, TagIsOne DEF CommandInv, Numbered, Tags
    <3> QED BY <2>1, <3>1, <3>2
  <2> QED BY <2>1, <2>2, NoCommandIsIdle DEF CommandInv, Numbered, TasksLeave, AppliesAfterTasks, IsImage
<1>2. ASSUME PushAbandoned PROVE CommandInv'
  <2>1. PICK push \in abandoned :
          /\ abandoned' = abandoned \ {push} /\ pushed' = pushed \cup {push[2]}
          /\ registry' = [registry EXCEPT ![push[1]] = push[2]]
    BY <1>2 DEF PushAbandoned
  <2>2. UNCHANGED <<nextBuild, output, cmd, commands, bucket>>
    BY <1>2 DEF PushAbandoned, workspaceVars
  <2>3. push[1] \in Tags /\ IsImage(push[2])
    BY DEF CommandInv, Tagged
  <2>4. Numbered' /\ Tagged'
    BY <2>1, <2>2, <2>3 DEF CommandInv, Numbered, Tagged, IsImage, Tags
  <2>5. cmd.docker = "done" => registry'[Tag] \in pushed'
    BY <2>1, <2>3, TagIsOne DEF CommandInv, Tagged, TasksLeave
  <2>6. TasksLeave'
    BY <2>2, <2>5 DEF CommandInv, TasksLeave, IsImage, Tag, Given, FilesOf
  <2> QED BY <2>2, <2>4, <2>6 DEF CommandInv, AppliesAfterTasks, Given
<1>3. ASSUME FinishCommand PROVE CommandInv'
  <2>1. cmd' = NoCommand /\ UNCHANGED <<nextBuild, output, commands, registryVars, bucket>>
    BY <1>3 DEF FinishCommand, At, workspaceVars
  <2> QED BY <2>1, NoCommandIsIdle DEF CommandInv, Numbered, Tagged, TasksLeave, AppliesAfterTasks,
             registryVars, IsImage, Tags
<1> QED BY <1>1, <1>2, <1>3

LEMMA CommandInvNext == CommandInv /\ [DeployNext]_deployVars => CommandInv'
<1> SUFFICES ASSUME CommandInv, [DeployNext]_deployVars PROVE CommandInv'
  OBVIOUS
<1>1. CASE UNCHANGED deployVars \/ EditConfig
  <2>1. UNCHANGED <<nextBuild, output, cmd, commands, registryVars, bucket>>
    BY <1>1 DEF deployVars, workspaceVars, EditConfig
  <2> QED BY <2>1, IdleKeepsInv
<1> QED BY <1>1, StartKeepsInv, BuildKeepsInv, TasksKeepInv, ClusterKeepsInv, EndsKeepInv DEF DeployNext

LEMMA CommandInvariant == DeploySpec => []CommandInv
  BY CommandInvInit, CommandInvNext, PTL DEF DeploySpec

----------------------------------------------------------------------------
(* What each step does to the releases *)

\* The release that ApplyManifest makes.
NewRelease ==
    [template |-> [tag |-> Tag, env |-> ServiceEnvironment(config, cmd.env, FALSE)],
     image |-> registry[Tag], bypassed |-> FALSE,
     waived |-> Given("skip-upload") \/ Given("bucket") \/ registry[Tag] # cmd.image]

\* It runs an image that has been pushed, and has its assets or waives them.
LEMMA NewReleaseIsComplete ==
  ASSUME CommandInv, cmd.at = "apply"
  PROVE  /\ NewRelease.image \in pushed /\ NewRelease.waived \in BOOLEAN
         /\ NewRelease.waived \/ FilesOf(NewRelease.image) \subseteq bucket
<1>1. /\ cmd.docker = "done" /\ (Given("skip-upload") \/ cmd.upload = "done")
      /\ registry[Tag] \in pushed /\ cmd.image = output
  BY DEF CommandInv, AppliesAfterTasks, TasksLeave
<1>2. cmd.upload = "done" => Given("bucket") \/ FilesOf(output) \subseteq bucket
  BY DEF CommandInv, TasksLeave
<1>3. NewRelease.image = registry[Tag]
  BY DEF NewRelease
<1>4. NewRelease.waived = (Given("skip-upload") \/ Given("bucket") \/ registry[Tag] # cmd.image)
  BY DEF NewRelease
<1>5. NewRelease.waived \in BOOLEAN
  BY <1>4
<1>6. ~NewRelease.waived => FilesOf(registry[Tag]) \subseteq bucket
  BY <1>1, <1>2, <1>4
<1> QED BY <1>1, <1>3, <1>5, <1>6

LEMMA ApplyMakesOne ==
  ASSUME ApplyManifest
  PROVE  /\ cmd.at = "apply" /\ UNCHANGED <<pushed, bucket>>
         /\ \/ services' = services
            \/ services' = [n \in Live \cup {Namespace} |-> IF n # Namespace THEN services[n] ELSE NewRelease]
  BY DEF ApplyManifest, At, NewRelease, registryVars

LEMMA NamespaceIsOne == Namespace \in DeployNamespaces
  BY DEF Namespace, DeployNamespaces

\* The steps that leave the releases alone take nothing out of the bucket, but
\* for the last one of cleanup.
LEMMA QuietSteps ==
  ASSUME CommandInv, [DeployNext]_deployVars, ~ApplyManifest, ~DeleteService, ~ClearStorage
  PROVE  /\ services' = services /\ bucket \subseteq bucket'
         /\ cmd'.at \in {"delete", "clear"} => cmd.at \in {"delete", "clear"}
<1>1. CASE UNCHANGED deployVars \/ EditConfig \/ PushAbandoned
  BY <1>1 DEF deployVars, clusterVars, EditConfig, PushAbandoned
<1>2. CASE StartCommand
  <2>1. PICK kind, options : \E at \in {"entrypoint", "next", "generate", "ksvc"} :
          Start(kind, options, at)
    BY <1>2 DEF StartCommand
  <2>2. cmd'.at \in {"entrypoint", "next", "generate", "ksvc"}
    BY <2>1 DEF Start, NoCommand
  <2> QED BY <2>1, <2>2 DEF Start, clusterVars
<1>3. CASE GenerateOpenNextConfig \/ NextBuild \/ PatchAssetPrefix \/ PatchStandaloneOutput
  BY <1>3, GotoLeaves DEF GenerateOpenNextConfig, NextBuild, PatchAssetPrefix, PatchStandaloneOutput,
     clusterVars
<1>4. CASE OpenNextBuild \/ GenerateEntrypoint
  <2>1. UNCHANGED <<services, bucket>> /\ ((\E place \in {"prefix", "manifest"} : Goto(place))
          \/ \E upload, docker \in BOOLEAN : StartTasks(upload, docker))
    BY <1>4 DEF OpenNextBuild, GenerateEntrypoint, clusterVars, Given
  <2>2. cmd'.at \in {"prefix", "manifest", "tasks"}
    BY <2>1, GotoLeaves DEF StartTasks, CommandInv, Numbered, CmdFields
  <2> QED BY <2>1, <2>2
<1>5. CASE UploadInBulk \/ VerifyUpload \/ BuildAndPush
  <2>1. cmd.at = "tasks" /\ services' = services /\ bucket \subseteq bucket'
    BY <1>5 DEF UploadInBulk, VerifyUpload, BuildAndPush, At, Put, clusterVars
  <2>2. cmd'.at = cmd.at
    BY <1>5 DEF UploadInBulk, VerifyUpload, BuildAndPush, CommandInv, Numbered, CmdFields
  <2> QED BY <2>1, <2>2
<1>6. CASE AwaitTasks \/ WriteManifest \/ GetUrl
  <2>1. UNCHANGED <<services, bucket>>
        /\ \E place \in {"infra", "manifest", "apply", "complete"} : Goto(place)
    BY <1>6 DEF AwaitTasks, AfterTasks, WriteManifest, GetUrl, clusterVars
  <2> QED BY <2>1, GotoLeaves
<1>7. CASE ApplyInfrastructure
  <2>1. /\ cmd.at = "infra" /\ UNCHANGED <<services, bucket>>
        /\ \/ cmd' = [cmd EXCEPT !.step = @ + 1]
           \/ cmd' = [cmd EXCEPT !.at = "manifest", !.env = InfraEnv(config)]
    BY <1>7 DEF ApplyInfrastructure, At
  <2>2. cmd'.at \in {"infra", "manifest"}
    BY <2>1 DEF CommandInv, Numbered, CmdFields
  <2> QED BY <2>1, <2>2
<1>8. CASE DeleteInfrastructure
  BY <1>8 DEF DeleteInfrastructure, At
<1>9. CASE Fail \/ FinishCommand
  <2>1. cmd' = NoCommand /\ UNCHANGED <<services, bucket>>
    BY <1>9 DEF Fail, FinishCommand, clusterVars
  <2> QED BY <2>1, NoCommandIsIdle
<1> QED BY <1>1, <1>2, <1>3, <1>4, <1>5, <1>6, <1>7, <1>8, <1>9 DEF DeployNext

----------------------------------------------------------------------------
(* The assets stay *)

LiveInv ==
    /\ \A n \in Live : {"image", "waived", "bypassed"} \subseteq DOMAIN services[n]
    /\ cmd.at \in {"delete", "clear"} => \A n \in Live : services[n].bypassed
    /\ LiveHasAssets

LEMMA LiveInvInit == DeployInit => LiveInv
  BY DEF DeployInit, LiveInv, LiveHasAssets, Live

LEMMA LiveInvNext == CommandInv /\ LiveInv /\ [DeployNext]_deployVars => LiveInv'
<1> SUFFICES ASSUME CommandInv, LiveInv, [DeployNext]_deployVars PROVE LiveInv'
  OBVIOUS
<1>1. CASE ApplyManifest
  <2>1. cmd'.at = "url"
    BY <1>1, GotoLeaves DEF ApplyManifest
  <2>2. NewRelease.waived \/ FilesOf(NewRelease.image) \subseteq bucket
    BY <1>1, ApplyMakesOne, NewReleaseIsComplete
  <2>3. {"image", "waived", "bypassed"} \subseteq DOMAIN NewRelease
    BY DEF NewRelease
  <2>4. CASE services' = services
    BY <1>1, <2>1, <2>4, ApplyMakesOne DEF LiveInv, LiveHasAssets, Live, FilesOf
  <2>5. CASE services' = [n \in Live \cup {Namespace} |->
                            IF n # Namespace THEN services[n] ELSE NewRelease]
    <3>1. ASSUME NEW n \in Live' PROVE services'[n] = NewRelease \/ (n \in Live /\ services'[n] = services[n])
      BY <2>5 DEF Live
    <3>2. bucket' = bucket
      BY <1>1, ApplyMakesOne
    <3> QED BY <2>1, <2>2, <2>3, <3>1, <3>2 DEF LiveInv, LiveHasAssets, FilesOf
  <2> QED BY <1>1, <2>4, <2>5, ApplyMakesOne
<1>2. CASE DeleteService
  <2>1. PICK gone : services' = [n \in Live \ gone |-> [services[n] EXCEPT !.bypassed = TRUE]]
    BY <1>2 DEF DeleteService
  <2>2. ASSUME NEW n \in Live'
        PROVE  {"image", "waived", "bypassed"} \subseteq DOMAIN services'[n] /\ services'[n].bypassed
    <3>1. n \in Live /\ services'[n] = [services[n] EXCEPT !.bypassed = TRUE]
      BY <2>1 DEF Live
    <3> QED BY <3>1 DEF LiveInv
  <2> QED BY <2>2 DEF LiveInv, LiveHasAssets
<1>3. CASE ClearStorage
  <2>1. cmd.at = "clear" /\ services' = services /\ cmd'.at \in {"complete", "uncleared"}
    BY <1>3, GotoLeaves DEF ClearStorage, At, clusterVars
  <2> QED BY <2>1 DEF LiveInv, LiveHasAssets, Live
<1>4. CASE ~ApplyManifest /\ ~DeleteService /\ ~ClearStorage
  <2>1. /\ services' = services /\ bucket \subseteq bucket'
        /\ cmd'.at \in {"delete", "clear"} => cmd.at \in {"delete", "clear"}
    BY <1>4, QuietSteps
  <2> QED BY <2>1 DEF LiveInv, LiveHasAssets, Live, FilesOf
<1> QED BY <1>1, <1>2, <1>3, <1>4

\* Whatever commands follow, fail or are repeated, the assets of a release stay
\* where its pages fetch them, unless the deploy waived them or a cleanup has
\* passed the release over (asset-upload.ts, cleanup.ts).
THEOREM AssetsStay == DeploySpec => []LiveHasAssets
<1>1. LiveInv => LiveHasAssets
  BY DEF LiveInv
<1> QED BY <1>1, CommandInvInit, CommandInvNext, LiveInvInit, LiveInvNext, PTL DEF DeploySpec

----------------------------------------------------------------------------
(* Deploy implements Release *)

\* A release as Release sees it.
Seen(s) == [image |-> s.image.build, waived |-> s.waived]

LEMMA InitImplements == DeployInit => Promise!ReleaseInit
<1> SUFFICES ASSUME DeployInit PROVE Promise!ReleaseInit
  OBVIOUS
<1>1. Live = {}
  BY DEF DeployInit, Live
<1> QED BY <1>1 DEF DeployInit, Promise!ReleaseInit

\* Nothing that Release sees has changed.
LEMMA Unseen == UNCHANGED <<pushed, bucket, services>> => UNCHANGED Promise!releaseVars
  BY DEF Promise!releaseVars, Live

LEMMA PushImplements ==
  ASSUME NEW image, IsImage(image), pushed' = pushed \cup {image}, UNCHANGED <<bucket, services>>
  PROVE  Promise!Push
<1>1. {i.build : i \in pushed}' = {i.build : i \in pushed} \cup {image.build}
  OBVIOUS
<1>2. image.build \in 1..MaxCommands
  BY DEF IsImage
<1> QED BY <1>1, <1>2 DEF Promise!Push, Live

LEMMA UploadImplements ==
  ASSUME CommandInv, NEW files, files \subseteq FilesOf(output), IsImage(output), Put(files),
         UNCHANGED <<pushed, services>>
  PROVE  [Promise!Upload]_Promise!releaseVars
<1>1. CASE bucket' = bucket
  BY <1>1, Unseen
<1>2. CASE bucket' = bucket \cup files
  <2>1. files \in SUBSET ((1..MaxCommands) \X Files)
    BY DEF FilesOf, IsImage
  <2> QED BY <1>2, <2>1 DEF Promise!Upload, Live
<1> QED BY <1>1, <1>2 DEF Put

LEMMA ApplyImplements ==
  ASSUME CommandInv, ApplyManifest
  PROVE  [Promise!ReleaseNext]_Promise!releaseVars
<1>1. cmd.at = "apply" /\ UNCHANGED <<pushed, bucket>>
  BY ApplyMakesOne
<1>2. CASE services' = services
  BY <1>1, <1>2, Unseen
<1>3. CASE services' = [n \in Live \cup {Namespace} |-> IF n # Namespace THEN services[n] ELSE NewRelease]
  <2> DEFINE image == NewRelease.image.build
             waived == NewRelease.waived
             live == [n \in DeployNamespaces |-> IF n \in Live THEN Seen(services[n]) ELSE None]
  <2>0. PICK ns \in DeployNamespaces : ns = Namespace
    BY NamespaceIsOne
  <2>1. image \in {i.build : i \in pushed} /\ waived \in BOOLEAN /\ IsImage(NewRelease.image)
    BY <1>1, NewReleaseIsComplete DEF CommandInv, Numbered
  <2>2. waived \/ [b \in 1..MaxCommands |-> {b} \X Files][image] \subseteq bucket
    BY <1>1, <2>1, NewReleaseIsComplete DEF FilesOf, IsImage
  <2>3. live' = [live EXCEPT ![ns] = [image |-> image, waived |-> waived]]
    <3>1. Live' = Live \cup {Namespace} /\ services'[Namespace] = NewRelease
          /\ \A n \in Live : n # Namespace => services'[n] = services[n]
      BY <1>3 DEF Live
    <3> QED BY <2>0, <3>1 DEF Seen
  <2>4. Promise!GoLive(ns)
    BY <1>1, <2>1, <2>2, <2>3 DEF Promise!GoLive, Seen
  <2> QED BY <2>4 DEF Promise!ReleaseNext
<1> QED BY <1>2, <1>3, ApplyMakesOne

LEMMA DeleteImplements ==
  ASSUME LiveInv, DeleteService
  PROVE  [Promise!ReleaseNext]_Promise!releaseVars
<1>1. PICK gone \in {{}, {"default"}} :
        services' = [n \in Live \ gone |-> [services[n] EXCEPT !.bypassed = TRUE]]
  BY DEF DeleteService
<1>2. UNCHANGED <<pushed, bucket>>
  BY DEF DeleteService, registryVars
<1> DEFINE live == [n \in DeployNamespaces |-> IF n \in Live THEN Seen(services[n]) ELSE None]
<1>3. Live' = Live \ gone /\ \A n \in Live' : Seen(services'[n]) = Seen(services[n])
  BY <1>1 DEF Live, LiveInv, Seen
<1>4. CASE gone = {}
  <2>1. live' = live
    BY <1>3, <1>4
  <2> QED BY <1>2, <2>1 DEF Promise!releaseVars, Seen
<1>5. CASE gone = {"default"}
  <2>1. live' = [live EXCEPT !["default"] = None]
    BY <1>3, <1>5 DEF DeployNamespaces
  <2>2. Promise!Withdraw("default")
    BY <1>2, <2>1 DEF Promise!Withdraw, Seen
  <2> QED BY <2>2 DEF Promise!ReleaseNext, DeployNamespaces
<1> QED BY <1>4, <1>5

LEMMA StepImplements ==
  CommandInv /\ LiveInv /\ [DeployNext]_deployVars => [Promise!ReleaseNext]_Promise!releaseVars
<1> SUFFICES ASSUME CommandInv, LiveInv, [DeployNext]_deployVars
             PROVE  [Promise!ReleaseNext]_Promise!releaseVars
  OBVIOUS
<1>1. CASE UploadInBulk
  <2>1. PICK files \in SUBSET FilesOf(output) : Put(files)
    BY <1>1 DEF UploadInBulk
  <2>2. IsImage(output) /\ UNCHANGED <<pushed, services>>
    BY <1>1 DEF UploadInBulk, CommandInv, Numbered, registryVars, clusterVars
  <2> QED BY <2>1, <2>2, UploadImplements DEF Promise!ReleaseNext
<1>2. CASE VerifyUpload
  <2>1. Put(FilesOf(output) \ bucket) /\ cmd.upload = "verify" /\ UNCHANGED <<pushed, services>>
    BY <1>2 DEF VerifyUpload, Retried, registryVars, clusterVars
  <2>2. IsImage(output)
    BY <2>1 DEF CommandInv, TasksLeave
  <2> QED BY <2>1, <2>2, UploadImplements DEF Promise!ReleaseNext
<1>3. CASE BuildAndPush
  <2>1. IsImage(output) /\ pushed' = pushed \cup {output} /\ UNCHANGED <<bucket, services>>
    BY <1>3 DEF BuildAndPush, CommandInv, Numbered, clusterVars
  <2> QED BY <2>1, PushImplements DEF Promise!ReleaseNext
<1>4. CASE PushAbandoned
  <2>1. PICK push \in abandoned : pushed' = pushed \cup {push[2]}
    BY <1>4 DEF PushAbandoned
  <2>2. IsImage(push[2]) /\ UNCHANGED <<bucket, services>>
    BY <1>4 DEF PushAbandoned, CommandInv, Tagged, clusterVars
  <2> QED BY <2>1, <2>2, PushImplements DEF Promise!ReleaseNext
<1>5. CASE ApplyManifest
  BY <1>5, ApplyImplements
<1>6. CASE DeleteService
  BY <1>6, DeleteImplements
<1>7. CASE ClearStorage
  BY <1>7 DEF ClearStorage, registryVars, clusterVars, Live, Promise!Clear, Promise!ReleaseNext
<1>8. CASE \/ UNCHANGED deployVars \/ EditConfig \/ StartCommand
           \/ GenerateOpenNextConfig \/ NextBuild \/ OpenNextBuild
           \/ PatchAssetPrefix \/ PatchStandaloneOutput \/ GenerateEntrypoint
           \/ AwaitTasks \/ ApplyInfrastructure \/ WriteManifest \/ GetUrl
           \/ DeleteInfrastructure \/ Fail \/ FinishCommand
  <2>1. UNCHANGED <<pushed, bucket, services>>
    BY <1>8 DEF deployVars, registryVars, clusterVars, EditConfig, StartCommand, Start,
       GenerateOpenNextConfig, NextBuild, OpenNextBuild, PatchAssetPrefix, PatchStandaloneOutput,
       GenerateEntrypoint, AwaitTasks, ApplyInfrastructure, WriteManifest, GetUrl,
       DeleteInfrastructure, Fail, FinishCommand
  <2> QED BY <2>1, Unseen
<1> QED BY <1>1, <1>2, <1>3, <1>4, <1>5, <1>6, <1>7, <1>8 DEF DeployNext

\* The commands implement Release: whatever the user runs, interrupts and
\* repeats, a release goes live only with an image that is in the registry and
\* with all its assets, unless it waives them (deploy.ts, asset-upload.ts).
THEOREM DeployImplementsRelease == DeploySpec => GoesLiveComplete
<1>1. DeploySpec => [](CommandInv /\ LiveInv)
  BY CommandInvInit, CommandInvNext, LiveInvInit, LiveInvNext, PTL DEF DeploySpec
<1> QED BY <1>1, InitImplements, StepImplements, PTL DEF DeploySpec, GoesLiveComplete, Promise!ReleaseSpec

----------------------------------------------------------------------------
(* The places of a command, and what a step at one of them leaves alone *)

BuildPlaces == {"generate", "next", "opennext", "prefix", "patch", "entrypoint", "tasks"}

\* The steps of a deploy and of a build.
Working ==
    \/ GenerateOpenNextConfig \/ NextBuild \/ OpenNextBuild \/ PatchAssetPrefix
    \/ PatchStandaloneOutput \/ GenerateEntrypoint \/ UploadInBulk \/ VerifyUpload
    \/ BuildAndPush \/ AwaitTasks \/ ApplyInfrastructure \/ WriteManifest \/ ApplyManifest
    \/ GetUrl

\* Where a working command goes from here to there.
Onwards ==
    \/ cmd.at \in BuildPlaces /\ cmd'.at \in BuildPlaces
    \/ cmd.at = "tasks" /\ cmd'.at \in {"infra", "manifest"}
    \/ cmd.at = "entrypoint" /\ cmd'.at = "manifest"
    \/ cmd.at = "manifest" /\ cmd'.at \in {"apply", "complete"}
    \/ cmd.at = "apply" /\ cmd'.at = "url"
    \/ cmd.at = "url" /\ cmd'.at = "complete"

\* What a working command is, and which configuration it reads, stay.
SameCommand ==
    /\ cmd'.kind = cmd.kind /\ cmd'.options = cmd.options /\ cmd'.tagUsed = cmd.tagUsed
    /\ UNCHANGED <<config, commands, abandoned>>

LEMMA GotoLeavesAll ==
  ASSUME CommandInv, NEW place, Goto(place)
  PROVE  /\ cmd'.at = place /\ cmd'.kind = cmd.kind /\ cmd'.options = cmd.options
         /\ cmd'.docker = cmd.docker /\ cmd'.image = cmd.image /\ cmd'.step = cmd.step
         /\ cmd'.env = cmd.env /\ cmd'.tagUsed = cmd.tagUsed
  BY DEF CommandInv, Numbered, CmdFields, Goto

\* The steps that only go on.
LEMMA GoingOn ==
  ASSUME CommandInv,
         \/ GenerateOpenNextConfig \/ NextBuild \/ PatchAssetPrefix \/ PatchStandaloneOutput
         \/ AwaitTasks \/ WriteManifest \/ ApplyManifest \/ GetUrl
  PROVE  /\ SameCommand /\ Onwards /\ cmd'.step = cmd.step /\ cmd'.env = cmd.env
         /\ cmd'.docker = cmd.docker /\ cmd'.image = cmd.image /\ registry' = registry
<1>1. \E place : Goto(place) /\
        (\/ cmd.at = "generate" /\ place \in {"opennext", "next"}
         \/ cmd.at = "next" /\ place = "opennext"
         \/ cmd.at = "prefix" /\ place = "patch"
         \/ cmd.at = "patch" /\ place = "entrypoint"
         \/ cmd.at = "tasks" /\ place \in {"infra", "manifest"}
         \/ cmd.at = "manifest" /\ place \in {"apply", "complete"}
         \/ cmd.at = "apply" /\ place = "url"
         \/ cmd.at = "url" /\ place = "complete")
  BY DEF GenerateOpenNextConfig, NextBuild, PatchAssetPrefix, PatchStandaloneOutput,
         AwaitTasks, AfterTasks, WriteManifest, ApplyManifest, GetUrl, At
<1>2. UNCHANGED <<config, commands, abandoned, registry>>
  BY DEF GenerateOpenNextConfig, NextBuild, PatchAssetPrefix, PatchStandaloneOutput,
         AwaitTasks, WriteManifest, ApplyManifest, GetUrl, At, workspaceVars, registryVars
<1> QED BY <1>1, <1>2, GotoLeavesAll DEF SameCommand, Onwards, BuildPlaces

LEMMA WorkingLeaves ==
  ASSUME CommandInv, Working, ~ApplyInfrastructure
  PROVE  /\ SameCommand /\ Onwards /\ cmd'.step = cmd.step /\ cmd'.env = cmd.env
         /\ \/ cmd'.docker \in {cmd.docker, "off", "build"} /\ cmd'.image = cmd.image
               /\ registry' = registry
            \/ BuildAndPush
<1>1. CASE OpenNextBuild \/ GenerateEntrypoint
  <2>1. /\ UNCHANGED <<config, commands, abandoned, registry>>
        /\ cmd.at \in {"opennext", "entrypoint"}
        /\ \/ cmd.at = "opennext" /\ Goto("prefix")
           \/ cmd.at = "entrypoint" /\ Goto("manifest")
           \/ \E upload, docker \in BOOLEAN : StartTasks(upload, docker)
    BY <1>1 DEF OpenNextBuild, GenerateEntrypoint, At, workspaceVars, registryVars, Given
  <2>2. CASE \E upload, docker \in BOOLEAN : StartTasks(upload, docker)
    <3>1. PICK upload \in BOOLEAN, docker \in BOOLEAN : StartTasks(upload, docker)
      BY <2>2
    <3>2. /\ cmd'.at = "tasks" /\ cmd'.kind = cmd.kind /\ cmd'.options = cmd.options
          /\ cmd'.tagUsed = cmd.tagUsed /\ cmd'.step = cmd.step /\ cmd'.env = cmd.env
          /\ cmd'.docker \in {"off", "build"} /\ cmd'.image = cmd.image
      BY <3>1 DEF StartTasks, CommandInv, Numbered, CmdFields
    <3> QED BY <2>1, <3>2 DEF SameCommand, Onwards, BuildPlaces
  <2> QED BY <2>1, <2>2, GotoLeavesAll DEF SameCommand, Onwards, BuildPlaces
<1>2. CASE UploadInBulk \/ VerifyUpload
  <2>1. /\ cmd.at = "tasks" /\ UNCHANGED <<config, commands, abandoned, registry>>
        /\ \E upload : cmd' = [cmd EXCEPT !.upload = upload]
    BY <1>2 DEF UploadInBulk, VerifyUpload, At, workspaceVars, registryVars
  <2>2. PICK upload : cmd' = [cmd EXCEPT !.upload = upload]
    BY <2>1
  <2>3. /\ cmd'.at = "tasks" /\ cmd'.kind = cmd.kind /\ cmd'.options = cmd.options
        /\ cmd'.tagUsed = cmd.tagUsed /\ cmd'.step = cmd.step /\ cmd'.env = cmd.env
        /\ cmd'.docker = cmd.docker /\ cmd'.image = cmd.image
    BY <2>1, <2>2 DEF CommandInv, Numbered, CmdFields
  <2> QED BY <2>1, <2>3 DEF SameCommand, Onwards, BuildPlaces
<1>3. CASE BuildAndPush
  <2>1. /\ cmd.at = "tasks" /\ UNCHANGED <<config, commands, abandoned>>
        /\ cmd' = [cmd EXCEPT !.docker = "done", !.image = output]
    BY <1>3 DEF BuildAndPush, At, workspaceVars
  <2>2. /\ cmd'.at = "tasks" /\ cmd'.kind = cmd.kind /\ cmd'.options = cmd.options
        /\ cmd'.tagUsed = cmd.tagUsed /\ cmd'.step = cmd.step /\ cmd'.env = cmd.env
    BY <2>1 DEF CommandInv, Numbered, CmdFields
  <2> QED BY <1>3, <2>1, <2>2 DEF SameCommand, Onwards, BuildPlaces
<1> QED BY <1>1, <1>2, <1>3, GoingOn DEF Working

\* Of the steps of a deploy only ApplyManifest changes a release.
LEMMA WorkingOnServices ==
  ASSUME Working, ~ApplyManifest
  PROVE  services' = services
  BY DEF Working, GenerateOpenNextConfig, NextBuild, OpenNextBuild, PatchAssetPrefix,
     PatchStandaloneOutput, GenerateEntrypoint, UploadInBulk, VerifyUpload, BuildAndPush,
     AwaitTasks, ApplyInfrastructure, WriteManifest, GetUrl, clusterVars

\* One manifest of the infrastructure after the other.
LEMMA InfrastructureLeaves ==
  ASSUME CommandInv, ApplyInfrastructure
  PROVE  /\ SameCommand /\ cmd.at = "infra" /\ cmd'.docker = cmd.docker /\ cmd'.image = cmd.image
         /\ registry' = registry
         /\ \/ cmd.step < 4 /\ cmd'.at = "infra" /\ cmd'.step = cmd.step + 1 /\ cmd'.env = cmd.env
            \/ ~(cmd.step < 4) /\ cmd'.at = "manifest" /\ cmd'.env = InfraEnv(config)
<1>1. /\ cmd.at = "infra" /\ UNCHANGED <<config, commands, abandoned, registry>>
      /\ \/ cmd.step < 4 /\ cmd' = [cmd EXCEPT !.step = @ + 1]
         \/ ~(cmd.step < 4) /\ cmd' = [cmd EXCEPT !.at = "manifest", !.env = InfraEnv(config)]
  BY DEF ApplyInfrastructure, At, InfraManifests, workspaceVars, registryVars
<1> QED BY <1>1 DEF SameCommand, CommandInv, Numbered, CmdFields

\* The first step of a command.
LEMMA StartLeaves ==
  ASSUME CommandInv, StartCommand
  PROVE  /\ cmd.at = "idle" /\ commands' = commands + 1
         /\ UNCHANGED <<workspaceVars, registryVars, bucket, clusterVars>>
         /\ cmd'.docker = "off" /\ cmd'.step = 1 /\ cmd'.env = {}
         /\ cmd'.tagUsed = (registry[0] # None \/ abandoned # {})
         /\ \/ cmd'.kind = "deploy" /\ cmd'.at = "entrypoint" /\ "skip-build" \in cmd'.options
            \/ cmd'.kind = "deploy" /\ cmd'.at = "next"
            \/ cmd'.kind = "build" /\ cmd'.at = "generate"
            \/ cmd'.kind = "cleanup" /\ cmd'.at = "ksvc"
<1>1. PICK kind, options, at :
        /\ Start(kind, options, at)
        /\ \/ kind = "deploy" /\ at = "entrypoint" /\ "skip-build" \in options
           \/ kind = "deploy" /\ at = "next"
           \/ kind = "build" /\ at = "generate"
           \/ kind = "cleanup" /\ at = "ksvc"
  BY DEF StartCommand
<1>2. /\ cmd'.kind = kind /\ cmd'.options = options /\ cmd'.at = at /\ cmd'.docker = "off"
      /\ cmd'.step = 1 /\ cmd'.env = {} /\ cmd'.tagUsed = (registry[0] # None \/ abandoned # {})
  BY <1>1 DEF Start, NoCommand
<1> QED BY <1>1, <1>2 DEF Start

\* The first three steps of cleanup, and the two ends of a command.
LEMMA CleanupLeaves ==
  ASSUME CommandInv
  PROVE  /\ DeleteService =>
              /\ SameCommand /\ cmd.at = "ksvc" /\ cmd'.at = "delete" /\ cmd'.step = cmd.step
              /\ cmd'.env = cmd.env /\ cmd'.docker = cmd.docker
         /\ DeleteInfrastructure =>
              /\ SameCommand /\ cmd.at = "delete" /\ cmd'.env = cmd.env /\ cmd'.docker = cmd.docker
              /\ \/ cmd.step < 3 /\ cmd'.at = "delete" /\ cmd'.step = cmd.step + 1
                 \/ ~(cmd.step < 3) /\ cmd'.at = "clear"
         /\ ClearStorage =>
              /\ SameCommand /\ cmd.at = "clear" /\ cmd'.at \in {"complete", "uncleared"}
              /\ cmd'.env = cmd.env /\ cmd'.docker = cmd.docker
         /\ Fail \/ FinishCommand =>
              /\ cmd.at # "idle" /\ cmd' = NoCommand /\ cmd'.at = "idle" /\ cmd'.env = {}
              /\ cmd'.kind = "none" /\ cmd'.docker = "off"
<1>1. ASSUME DeleteService PROVE
        /\ SameCommand /\ cmd.at = "ksvc" /\ cmd'.at = "delete" /\ cmd'.step = cmd.step
        /\ cmd'.env = cmd.env /\ cmd'.docker = cmd.docker
  BY <1>1, GotoLeavesAll DEF DeleteService, At, SameCommand, workspaceVars, registryVars
<1>2. ASSUME DeleteInfrastructure PROVE
        /\ SameCommand /\ cmd.at = "delete" /\ cmd'.env = cmd.env /\ cmd'.docker = cmd.docker
        /\ \/ cmd.step < 3 /\ cmd'.at = "delete" /\ cmd'.step = cmd.step + 1
           \/ ~(cmd.step < 3) /\ cmd'.at = "clear"
  <2>1. /\ cmd.at = "delete" /\ UNCHANGED <<config, commands, abandoned>>
        /\ \/ cmd.step < 3 /\ cmd' = [cmd EXCEPT !.step = @ + 1]
           \/ ~(cmd.step < 3) /\ cmd' = [cmd EXCEPT !.at = "clear"]
    BY <1>2 DEF DeleteInfrastructure, At, workspaceVars, registryVars
  <2> QED BY <2>1 DEF SameCommand, CommandInv, Numbered, CmdFields
<1>3. ASSUME ClearStorage PROVE
        /\ SameCommand /\ cmd.at = "clear" /\ cmd'.at \in {"complete", "uncleared"}
        /\ cmd'.env = cmd.env /\ cmd'.docker = cmd.docker
  BY <1>3, GotoLeavesAll DEF ClearStorage, At, SameCommand, workspaceVars, registryVars
<1>4. ASSUME Fail \/ FinishCommand PROVE
        /\ cmd.at # "idle" /\ cmd' = NoCommand /\ cmd'.at = "idle" /\ cmd'.env = {}
        /\ cmd'.kind = "none" /\ cmd'.docker = "off"
  BY <1>4 DEF Fail, FinishCommand, At, NoCommand
<1> QED BY <1>1, <1>2, <1>3, <1>4

\* Every step is one of these.
LEMMA EveryStep ==
  DeployNext <=> \/ EditConfig \/ StartCommand \/ Working \/ DeleteService \/ DeleteInfrastructure
                 \/ ClearStorage \/ Fail \/ FinishCommand \/ PushAbandoned
  BY DEF DeployNext, Working

----------------------------------------------------------------------------
(* Cleanup leaves nothing of the infrastructure *)

\* Cleanup is a kind of its own, and the commands count their steps.
PlaceInv ==
    /\ config \in Configs
    /\ cmd.at \in BuildPlaces \cup {"ksvc"} => cmd.step = 1
    /\ cmd.at = "infra" => cmd.step \in 1..4
    /\ cmd.at = "delete" => cmd.step \in 1..3
    /\ cmd.at \in {"ksvc", "delete", "clear"} => cmd.kind = "cleanup"
    /\ cmd.kind = "cleanup" => cmd.at \in {"ksvc", "delete", "clear", "complete", "uncleared"}

LEMMA PlaceInvInit == DeployInit => PlaceInv
  BY DeployAssumption DEF DeployInit, PlaceInv, NoCommand, BuildPlaces

LEMMA PlaceInvNext == CommandInv /\ PlaceInv /\ [DeployNext]_deployVars => PlaceInv'
<1> SUFFICES ASSUME CommandInv, PlaceInv, [DeployNext]_deployVars PROVE PlaceInv'
  OBVIOUS
<1>1. CASE UNCHANGED deployVars \/ EditConfig \/ PushAbandoned
  BY <1>1 DEF PlaceInv, deployVars, EditConfig, PushAbandoned, workspaceVars
<1>2. CASE StartCommand
  BY <1>2, StartLeaves DEF PlaceInv, BuildPlaces, workspaceVars
<1>3. CASE Working /\ ~ApplyInfrastructure
  BY <1>3, WorkingLeaves DEF PlaceInv, SameCommand, Onwards, BuildPlaces
<1>4. CASE ApplyInfrastructure
  BY <1>4, InfrastructureLeaves DEF PlaceInv, SameCommand, BuildPlaces
<1>5. CASE DeleteService \/ DeleteInfrastructure \/ ClearStorage
  BY <1>5, CleanupLeaves DEF PlaceInv, SameCommand, BuildPlaces
<1>6. CASE Fail \/ FinishCommand
  <2>1. config' = config
    BY <1>6 DEF Fail, FinishCommand, workspaceVars
  <2> QED BY <1>6, <2>1, CleanupLeaves DEF PlaceInv, BuildPlaces
<1> QED BY <1>1, <1>2, <1>3, <1>4, <1>5, <1>6, EveryStep

\* What deploy brings into the cluster besides the Service.
KnownObjects ==
    PostgresManifest \cup RedisManifest \cup MinioManifest \cup ObservabilityManifest
    \cup {Object("serviceaccount", "sa"), Object("claim", "bytecode-cache")}

\* The service that cleanup deletes at a step.
ServiceAt(step) == <<"postgres", "redis", "minio">>[step]

Gone(things, service) == \A o \in things : o[1] = "default" => o[2].name # service

CleanInv ==
    /\ objects \subseteq DeployNamespaces \X KnownObjects
    /\ cmd.at = "delete" =>
         \A i \in 1..(cmd.step - 1) : ServiceAt(i) \in config.infrastructure => Gone(objects, ServiceAt(i))
    /\ cmd.at = "clear" \/ (cmd.at = "complete" /\ cmd.kind = "cleanup") =>
         \A service \in config.infrastructure : Gone(objects, service)
    /\ cmd.at = "complete" /\ cmd.kind = "cleanup" => bucket = {} \/ config.storage = "gcs"

\* The manifests list known objects only.
LEMMA ManifestsAreKnown ==
  ASSUME NEW c
  PROVE  /\ \A step \in 1..4 : InfraManifests(c)[step] \subseteq KnownObjects
         /\ ManifestObjects(c) \subseteq KnownObjects
<1>1. \A step \in 1..4 : step = 1 \/ step = 2 \/ step = 3 \/ step = 4
  OBVIOUS
<1>2. /\ InfraManifests(c)[1] \subseteq KnownObjects /\ InfraManifests(c)[2] \subseteq KnownObjects
      /\ InfraManifests(c)[3] \subseteq KnownObjects /\ InfraManifests(c)[4] \subseteq KnownObjects
  BY DEF InfraManifests, Only, KnownObjects
<1>3. ManifestObjects(c) \subseteq KnownObjects
  BY DEF ManifestObjects, Only, KnownObjects
<1> QED BY <1>1, <1>2, <1>3

\* Cleanup deletes every known object that has a service's name.
LEMMA DeletedByName ==
  ASSUME NEW o \in KnownObjects, o.name \in Services
  PROVE  o \in DeletedWith(o.name)
  BY DEF KnownObjects, Services, DeletedWith, PostgresManifest, RedisManifest, MinioManifest,
         ObservabilityManifest, Object

\* After a cleanup's step the service of that step is gone.
LEMMA DeleteStep ==
  ASSUME PlaceInv, CleanInv, DeleteInfrastructure, cmd.step \in 1..3
  PROVE  /\ objects' \subseteq objects /\ UNCHANGED bucket
         /\ ServiceAt(cmd.step) \in config.infrastructure => Gone(objects', ServiceAt(cmd.step))
<1>0. ServiceAt(cmd.step) \in Services
  BY DEF ServiceAt, Services
<1> DEFINE service == ServiceAt(cmd.step)
<1>1. /\ UNCHANGED bucket
      /\ objects' = IF service \in config.infrastructure
                    THEN objects \ ({"default"} \X DeletedWith(service)) ELSE objects
  BY DEF DeleteInfrastructure, ServiceAt
<1> HIDE DEF service
<1>3. ASSUME service \in config.infrastructure, NEW o \in objects', o[1] = "default",
             o[2].name = service
      PROVE  FALSE
  <2>1. o \in objects /\ o \notin {"default"} \X DeletedWith(service)
    BY <1>1, <1>3
  <2>2. o \in DeployNamespaces \X KnownObjects
    BY <2>1 DEF CleanInv
  <2>3. o[2] \in DeletedWith(service)
    BY <1>0, <1>3, <2>2, DeletedByName DEF service
  <2> QED BY <1>3, <2>1, <2>2, <2>3
<1> QED BY <1>1, <1>3 DEF Gone, service

LEMMA CleanInvInit == DeployInit => CleanInv
  BY DEF DeployInit, CleanInv, NoCommand

LEMMA CleanInvNext == CommandInv /\ PlaceInv /\ CleanInv /\ [DeployNext]_deployVars => CleanInv'
<1> SUFFICES ASSUME CommandInv, PlaceInv, CleanInv, [DeployNext]_deployVars PROVE CleanInv'
  OBVIOUS
<1>1. CASE UNCHANGED deployVars
  BY <1>1 DEF CleanInv, deployVars, workspaceVars, clusterVars, Gone
<1>2. CASE EditConfig
  <2>1. cmd' = cmd /\ cmd.at = "idle" /\ objects' = objects
    BY <1>2 DEF EditConfig, clusterVars
  <2> QED BY <2>1 DEF CleanInv
<1>3. CASE PushAbandoned
  <2>1. UNCHANGED <<cmd, config, objects, bucket>>
    BY <1>3 DEF PushAbandoned, workspaceVars, clusterVars
  <2> QED BY <2>1 DEF CleanInv
<1>4. CASE StartCommand
  <2>1. objects' = objects /\ cmd'.at \notin {"delete", "clear", "complete"}
    BY <1>4, StartLeaves DEF clusterVars
  <2> QED BY <2>1 DEF CleanInv
<1>5. CASE Working
  <2>1. cmd'.kind # "cleanup" /\ cmd'.at \notin {"delete", "clear"}
    <3>1. CASE ApplyInfrastructure
      BY <3>1, InfrastructureLeaves DEF PlaceInv, SameCommand
    <3>2. CASE ~ApplyInfrastructure
      BY <1>5, <3>2, WorkingLeaves DEF PlaceInv, SameCommand, Onwards, BuildPlaces,
         Working, GetUrl, WriteManifest, ApplyManifest, At
    <3> QED BY <3>1, <3>2
  <2>2. objects' \subseteq DeployNamespaces \X KnownObjects
    <3>1. CASE ApplyInfrastructure
      <4>1. objects' = objects \cup ({Namespace} \X InfraManifests(config)[cmd.step])
            /\ cmd.step \in 1..4
        BY <3>1, InfrastructureLeaves DEF ApplyInfrastructure, PlaceInv
      <4>2. InfraManifests(config)[cmd.step] \subseteq KnownObjects
        BY <4>1, ManifestsAreKnown
      <4> QED BY <4>1, <4>2, NamespaceIsOne DEF CleanInv
    <3>2. CASE ApplyManifest
      <4>1. objects' = objects \cup ({Namespace} \X ManifestObjects(config))
        BY <3>2 DEF ApplyManifest
      <4> QED BY <4>1, ManifestsAreKnown, NamespaceIsOne DEF CleanInv
    <3>3. CASE ~ApplyInfrastructure /\ ~ApplyManifest
      <4>1. objects' = objects
        BY <1>5, <3>3 DEF Working, GenerateOpenNextConfig, NextBuild, OpenNextBuild,
           PatchAssetPrefix, PatchStandaloneOutput, GenerateEntrypoint, UploadInBulk, VerifyUpload,
           BuildAndPush, AwaitTasks, WriteManifest, GetUrl, clusterVars
      <4> QED BY <4>1 DEF CleanInv
    <3> QED BY <3>1, <3>2, <3>3
  <2> QED BY <2>1, <2>2 DEF CleanInv
<1>6. CASE DeleteService
  <2>1. objects' = objects /\ cmd'.at = "delete" /\ cmd'.step = 1
    BY <1>6, CleanupLeaves DEF DeleteService, PlaceInv
  <2>2. 1..(cmd'.step - 1) = {}
    BY <2>1
  <2> QED BY <2>1, <2>2 DEF CleanInv
<1>7. CASE DeleteInfrastructure
  <2>1. /\ cmd.at = "delete" /\ cmd.step \in 1..3 /\ config' = config
        /\ \/ cmd.step < 3 /\ cmd'.at = "delete" /\ cmd'.step = cmd.step + 1
           \/ cmd.step = 3 /\ cmd'.at = "clear"
    BY <1>7, CleanupLeaves DEF PlaceInv, SameCommand
  <2>2. \A i \in 1..cmd.step : ServiceAt(i) \in config.infrastructure => Gone(objects', ServiceAt(i))
    <3>1. ASSUME NEW i \in 1..cmd.step, ServiceAt(i) \in config.infrastructure
          PROVE  Gone(objects', ServiceAt(i))
      <4>1. CASE i = cmd.step
        BY <1>7, <2>1, <3>1, <4>1, DeleteStep
      <4>2. CASE i # cmd.step
        <5>1. i \in 1..(cmd.step - 1)
          BY <2>1, <4>2
        <5>2. Gone(objects, ServiceAt(i)) /\ objects' \subseteq objects
          BY <1>7, <2>1, <3>1, <5>1, DeleteStep DEF CleanInv
        <5> QED BY <5>2 DEF Gone
      <4> QED BY <4>1, <4>2
    <3> QED BY <3>1
  <2>3. objects' \subseteq DeployNamespaces \X KnownObjects
    BY <1>7, <2>1, DeleteStep DEF CleanInv
  <2>4. CASE cmd.step < 3
    <3>1. cmd'.at = "delete" /\ cmd'.step - 1 = cmd.step
      BY <2>1, <2>4
    <3> QED BY <2>1, <2>2, <2>3, <3>1 DEF CleanInv
  <2>5. CASE cmd.step = 3
    <3>1. config.infrastructure \subseteq Services
      BY DeployAssumption DEF PlaceInv, Configurations
    <3>2. ServiceAt(1) = "postgres" /\ ServiceAt(2) = "redis" /\ ServiceAt(3) = "minio"
      BY DEF ServiceAt
    <3>3. \A service \in config.infrastructure : \E i \in 1..cmd.step : service = ServiceAt(i)
      BY <2>5, <3>1, <3>2 DEF Services
    <3> QED BY <2>1, <2>2, <2>3, <2>5, <3>3 DEF CleanInv
  <2> QED BY <2>1, <2>4, <2>5
<1>8. CASE ClearStorage
  <2>1. /\ cmd.at = "clear" /\ UNCHANGED <<config, objects>>
        /\ cmd'.at \in {"complete", "uncleared"}
    BY <1>8, CleanupLeaves DEF ClearStorage, SameCommand, clusterVars
  <2>2. cmd'.at = "complete" => bucket' = {} \/ config.storage = "gcs"
    BY <1>8, GotoLeavesAll DEF ClearStorage
  <2> QED BY <2>1, <2>2 DEF CleanInv
<1>9. CASE Fail \/ FinishCommand
  <2>1. objects' = objects /\ cmd'.at = "idle"
    BY <1>9, CleanupLeaves DEF Fail, FinishCommand, clusterVars
  <2> QED BY <2>1 DEF CleanInv
<1> QED BY <1>1, <1>2, <1>3, <1>4, <1>5, <1>6, <1>7, <1>8, <1>9, EveryStep

\* A cleanup that reports success has deleted every object that any deploy has
\* made for the services that the configuration lists, whatever commands have
\* run before it, and has emptied the bucket, but for one of GCS, whose removal
\* may have failed unseen (cleanup.ts).
THEOREM CleanupIsComplete == DeploySpec => []CleanedUp
<1>1. CleanInv => CleanedUp
  BY DEF CleanInv, CleanedUp, Gone
<1> QED BY <1>1, CommandInvInit, CommandInvNext, PlaceInvInit, PlaceInvNext, CleanInvInit,
           CleanInvNext, PTL DEF DeploySpec

----------------------------------------------------------------------------
(* A deploy that completes has brought its image *)

\* The tag may stand for another image than this command's.
TagWasUsed == Given("tag") /\ cmd.tagUsed

\* Tags grow with the commands; that of --tag is in use once a release has it, and
\* a push that goes on has the tag of a command that is over.
TagsAreOwn ==
    /\ \A n \in Live : /\ {"template", "image"} \subseteq DOMAIN services[n]
                       /\ services[n].template.tag \in 0..commands
                       /\ services[n].template.tag = 0 => registry[0] # None
    /\ \A push \in abandoned : /\ push[1] <= commands /\ push[2] # None
                               /\ cmd.at # "idle" => push[1] < commands
    /\ cmd.at # "idle" /\ Given("tag") /\ ~cmd.tagUsed => abandoned = {}
    /\ cmd.docker = "done" => registry[Tag] # None /\ (registry[Tag] = cmd.image \/ TagWasUsed)

\* Until a deploy applies its manifest no release has its tag.
TagIsFresh ==
    cmd.at \notin {"idle", "url", "complete"} /\ cmd.kind = "deploy" =>
        TagWasUsed \/ \A n \in Live : services[n].template.tag # Tag

\* What a deploy leaves that has applied its manifest.
Brought ==
    cmd.at \in {"url", "complete"} /\ cmd.kind = "deploy" /\ ~Given("dry-run") =>
        \/ Namespace \in Live /\ services[Namespace].image = cmd.image
        \/ TagWasUsed

LEMMA TagsAreOwnInit == DeployInit => TagsAreOwn /\ TagIsFresh /\ Brought
  BY DEF DeployInit, TagsAreOwn, TagIsFresh, Brought, NoCommand, Live

\* The command, and with it its tag, is the same as before.
LEMMA SameTag ==
  ASSUME SameCommand
  PROVE  Tag' = Tag /\ TagWasUsed' = TagWasUsed /\ Namespace' = Namespace
         /\ \A option : Given(option)' = Given(option)
  BY DEF SameCommand, Tag, TagWasUsed, Namespace, Given

LEMMA BuildAndPushTags ==
  ASSUME CommandInv, BuildAndPush
  PROVE  /\ registry'[Tag] = output /\ cmd'.docker = "done" /\ cmd'.image = output /\ output # None
         /\ \A t \in Tags : t # Tag => registry'[t] = registry[t]
         /\ Tag \in Tags /\ cmd.at = "tasks"
<1>1. /\ cmd.at = "tasks" /\ output # None /\ registry' = [registry EXCEPT ![Tag] = output]
      /\ cmd' = [cmd EXCEPT !.docker = "done", !.image = output]
  BY DEF BuildAndPush, At
<1>2. Tag \in Tags
  BY <1>1, TagIsOne
<1>3. cmd'.docker = "done" /\ cmd'.image = output
  BY <1>1 DEF CommandInv, Numbered, CmdFields
<1> QED BY <1>1, <1>2, <1>3 DEF CommandInv, Tagged

LEMMA WorkingKeepsTags ==
  ASSUME CommandInv, TagsAreOwn, Working
  PROVE  TagsAreOwn'
<1>1. /\ SameCommand /\ cmd.at # "idle" /\ cmd'.at # "idle"
      /\ \/ cmd'.docker \in {cmd.docker, "off", "build"} /\ cmd'.image = cmd.image
            /\ registry' = registry
         \/ BuildAndPush
  <2>1. CASE ApplyInfrastructure
    BY <2>1, InfrastructureLeaves
  <2>2. CASE ~ApplyInfrastructure
    BY <2>2, WorkingLeaves DEF Onwards, BuildPlaces
  <2> QED BY <2>1, <2>2
<1>2. Tag' = Tag /\ TagWasUsed' = TagWasUsed /\ Given("tag")' = Given("tag")
  BY <1>1, SameTag
<1>3. UNCHANGED <<commands, abandoned>> /\ cmd'.tagUsed = cmd.tagUsed
  BY <1>1 DEF SameCommand
<1>4. cmd'.docker = "done" => registry'[Tag] # None /\ (registry'[Tag] = cmd'.image \/ TagWasUsed)
  BY <1>1, BuildAndPushTags DEF TagsAreOwn
<1>5. registry[0] # None => registry'[0] # None
  BY <1>1, BuildAndPushTags, DeployAssumption DEF Tags
<1>6. ASSUME NEW n \in Live'
      PROVE  /\ {"template", "image"} \subseteq DOMAIN services'[n]
             /\ services'[n].template.tag \in 0..commands
             /\ services'[n].template.tag = 0 => registry'[0] # None
  <2>1. CASE n \in Live /\ services'[n] = services[n]
    BY <1>5, <2>1 DEF TagsAreOwn
  <2>2. CASE ApplyManifest /\ n = Namespace /\ services'[n] = NewRelease
    <3>1. {"template", "image"} \subseteq DOMAIN NewRelease /\ NewRelease.template.tag = Tag
      BY DEF NewRelease
    <3>2. Tag = 0 \/ Tag = commands
      BY DEF Tag
    <3>3. commands \in Nat /\ registry[Tag] # None /\ registry' = registry
      BY <2>2, DeployAssumption DEF CommandInv, Numbered, AppliesAfterTasks, TagsAreOwn, ApplyManifest, At,
         registryVars
    <3> HIDE DEF NewRelease
    <3> QED BY <2>2, <3>1, <3>2, <3>3
  <2>3. CASE ~ApplyManifest
    <3>1. services' = services
      BY <2>3, WorkingOnServices
    <3> QED BY <2>1, <3>1 DEF Live
  <2>4. ApplyManifest => (n \in Live /\ services'[n] = services[n])
                         \/ (n = Namespace /\ services'[n] = NewRelease)
    BY ApplyMakesOne DEF Live
  <2> QED BY <2>1, <2>2, <2>3, <2>4
<1> QED BY <1>1, <1>2, <1>3, <1>4, <1>6 DEF TagsAreOwn

LEMMA StartKeepsTags ==
  ASSUME CommandInv, TagsAreOwn, StartCommand
  PROVE  TagsAreOwn' /\ TagIsFresh'
<1>1. /\ cmd.at = "idle" /\ commands' = commands + 1 /\ commands \in Nat
      /\ UNCHANGED <<registry, abandoned, services>> /\ cmd'.docker = "off"
      /\ cmd'.tagUsed = (registry[0] # None \/ abandoned # {})
  BY StartLeaves, DeployAssumption DEF CommandInv, Numbered, registryVars, clusterVars
<1>2. \A n \in Live : /\ {"template", "image"} \subseteq DOMAIN services[n]
                      /\ services[n].template.tag \in 0..commands
                      /\ services[n].template.tag = 0 => registry[0] # None
  BY DEF TagsAreOwn
<1>3. \A push \in abandoned : /\ push[1] \in Nat /\ push[1] <= commands /\ push[2] # None
  BY DeployAssumption DEF TagsAreOwn, CommandInv, Tagged, Tags
<1>4. TagsAreOwn'
  <2>1. \A n \in Live' : /\ {"template", "image"} \subseteq DOMAIN services'[n]
                         /\ services'[n].template.tag \in 0..commands'
                         /\ services'[n].template.tag = 0 => registry'[0] # None
    BY <1>1, <1>2 DEF Live
  <2>2. \A push \in abandoned' : push[1] <= commands' /\ push[2] # None /\ push[1] < commands'
    BY <1>1, <1>3
  <2>3. ~cmd'.tagUsed => abandoned' = {}
    BY <1>1
  <2> QED BY <1>1, <2>1, <2>2, <2>3 DEF TagsAreOwn
<1>5. TagIsFresh'
  <2> SUFFICES ASSUME ~TagWasUsed', NEW n \in Live' PROVE services'[n].template.tag # Tag'
    BY DEF TagIsFresh
  <2>1. n \in Live /\ services'[n] = services[n]
    BY <1>1 DEF Live
  <2>2. CASE Given("tag")'
    <3>1. Tag' = 0 /\ registry[0] = None
      BY <1>1, <2>2 DEF Tag, TagWasUsed
    <3> QED BY <1>2, <2>1, <3>1
  <2>3. CASE ~Given("tag")'
    <3>1. Tag' = commands + 1
      BY <1>1, <2>3 DEF Tag
    <3> QED BY <1>1, <1>2, <2>1, <3>1
  <2> QED BY <2>2, <2>3
<1> QED BY <1>4, <1>5

\* A command is over, or an abandoned push arrives.
LEMMA EndsKeepTags ==
  ASSUME CommandInv, TagsAreOwn, Fail \/ FinishCommand \/ PushAbandoned
  PROVE  TagsAreOwn'
<1>1. commands \in Nat /\ DOMAIN registry = Tags /\ 0 \in Tags
      /\ \A push \in abandoned : push[1] \in Tags
  BY DeployAssumption DEF CommandInv, Numbered, Tagged, Tags
<1>2. CASE Fail \/ FinishCommand
  <2>1. /\ cmd.at # "idle" /\ cmd'.at = "idle" /\ cmd'.docker = "off"
        /\ UNCHANGED <<commands, registry, services>>
    BY <1>2, CleanupLeaves DEF Fail, FinishCommand, At, registryVars, clusterVars
  <2>2. \A push \in abandoned' : push[1] <= commands /\ push[2] # None
    <3>1. ASSUME NEW push \in abandoned' PROVE push \in abandoned \/ (push = <<Tag, output>> /\ output # None)
      BY <1>2 DEF Fail, FinishCommand, registryVars
    <3>2. Tag <= commands
      BY <1>1 DEF Tag
    <3> QED BY <3>1, <3>2 DEF TagsAreOwn
  <2> QED BY <2>1, <2>2 DEF TagsAreOwn, Live
<1>3. CASE PushAbandoned
  <2>1. PICK push \in abandoned :
          abandoned' = abandoned \ {push} /\ registry' = [registry EXCEPT ![push[1]] = push[2]]
    BY <1>3 DEF PushAbandoned
  <2>2. UNCHANGED <<cmd, commands, services>>
    BY <1>3 DEF PushAbandoned, clusterVars
  <2>3. push[2] # None
    BY DEF TagsAreOwn
  <2>4. Tag' = Tag /\ TagWasUsed' = TagWasUsed /\ Given("tag")' = Given("tag")
    BY <2>2 DEF Tag, TagWasUsed, Given
  <2>5. registry[0] # None => registry'[0] # None
    BY <1>1, <2>1, <2>3
  <2>6. cmd.docker = "done" => registry'[Tag] # None /\ (registry'[Tag] = cmd.image \/ TagWasUsed)
    <3> SUFFICES ASSUME cmd.docker = "done"
                 PROVE  registry'[Tag] # None /\ (registry'[Tag] = cmd.image \/ TagWasUsed)
      OBVIOUS
    <3>1. cmd.at # "idle"
      BY DEF CommandInv, TasksLeave
    <3>2. Tag \in Tags
      BY <3>1, TagIsOne
    <3>3. CASE push[1] = Tag
      <4>1. push[1] < commands
        BY <3>1 DEF TagsAreOwn
      <4>2. Given("tag") /\ (cmd.tagUsed \/ abandoned = {})
        BY <1>1, <3>1, <3>3, <4>1 DEF Tag, TagsAreOwn
      <4> QED BY <1>1, <2>1, <2>3, <3>2, <3>3, <4>2 DEF TagWasUsed
    <3>4. CASE push[1] # Tag
      <4>1. registry'[Tag] = registry[Tag]
        BY <1>1, <2>1, <3>2, <3>4
      <4> QED BY <4>1 DEF TagsAreOwn
    <3> QED BY <3>3, <3>4
  <2> QED BY <2>1, <2>2, <2>4, <2>5, <2>6 DEF TagsAreOwn, Live
<1> QED BY <1>2, <1>3

LEMMA TagsAreOwnNext ==
  CommandInv /\ TagsAreOwn /\ [DeployNext]_deployVars => TagsAreOwn'
<1> SUFFICES ASSUME CommandInv, TagsAreOwn, [DeployNext]_deployVars PROVE TagsAreOwn'
  OBVIOUS
<1>1. CASE UNCHANGED deployVars \/ EditConfig
  <2>1. UNCHANGED <<cmd, commands, registry, abandoned, services>>
    BY <1>1 DEF deployVars, EditConfig, registryVars, clusterVars
  <2> QED BY <2>1 DEF TagsAreOwn, TagWasUsed, Tag, Given, Live
<1>2. CASE DeleteService \/ DeleteInfrastructure \/ ClearStorage
  <2>1. /\ SameCommand /\ cmd.at # "idle" /\ registry' = registry
        /\ cmd'.docker = "off"
    BY <1>2, CleanupLeaves DEF DeleteService, DeleteInfrastructure, ClearStorage, registryVars,
       CommandInv, TasksLeave
  <2>2. ASSUME NEW n \in Live'
        PROVE  /\ {"template", "image"} \subseteq DOMAIN services'[n]
               /\ services'[n].template.tag \in 0..commands
               /\ services'[n].template.tag = 0 => registry[0] # None
    <3>1. CASE n \in Live /\ services'[n] = services[n]
      BY <3>1 DEF TagsAreOwn
    <3>2. CASE n \in Live /\ services'[n] = [services[n] EXCEPT !.bypassed = TRUE]
      BY <3>2 DEF TagsAreOwn
    <3> QED BY <1>2, <3>1, <3>2 DEF DeleteService, DeleteInfrastructure, ClearStorage, clusterVars, Live
  <2>3. UNCHANGED <<commands, abandoned>> /\ cmd'.tagUsed = cmd.tagUsed /\ Given("tag")' = Given("tag")
    BY <2>1, SameTag DEF SameCommand
  <2> QED BY <2>1, <2>2, <2>3 DEF TagsAreOwn
<1> QED BY <1>1, <1>2, WorkingKeepsTags, StartKeepsTags, EndsKeepTags, EveryStep

LEMMA TagIsFreshNext ==
  CommandInv /\ PlaceInv /\ TagsAreOwn /\ TagIsFresh /\ [DeployNext]_deployVars => TagIsFresh'
<1> SUFFICES ASSUME CommandInv, PlaceInv, TagsAreOwn, TagIsFresh, [DeployNext]_deployVars
             PROVE  TagIsFresh'
  OBVIOUS
<1>1. CASE UNCHANGED deployVars \/ EditConfig \/ PushAbandoned
  <2>1. UNCHANGED <<cmd, commands, services>>
    BY <1>1 DEF deployVars, EditConfig, PushAbandoned, clusterVars
  <2> QED BY <2>1 DEF TagIsFresh, TagWasUsed, Tag, Given, Live
<1>2. CASE Working
  <2>1. CASE ApplyManifest
    <3>1. cmd'.at = "url"
      BY <2>1, GotoLeavesAll DEF ApplyManifest
    <3> QED BY <3>1 DEF TagIsFresh
  <2>2. CASE ~ApplyManifest
    <3>1. /\ SameCommand /\ services' = services
          /\ cmd'.at \notin {"url", "complete"} => cmd.at \notin {"idle", "url", "complete"}
      BY <1>2, <2>2, WorkingOnServices, WorkingLeaves, InfrastructureLeaves DEF Onwards, BuildPlaces
    <3> QED BY <3>1, SameTag DEF TagIsFresh, SameCommand, Live
  <2> QED BY <2>1, <2>2
<1>3. CASE DeleteService \/ DeleteInfrastructure \/ ClearStorage
  <2>1. cmd'.kind = "cleanup"
    BY <1>3, CleanupLeaves DEF SameCommand, PlaceInv
  <2> QED BY <2>1 DEF TagIsFresh
<1>4. CASE Fail \/ FinishCommand
  BY <1>4, CleanupLeaves DEF TagIsFresh
<1> QED BY <1>1, <1>2, <1>3, <1>4, StartKeepsTags, EveryStep

\* What ApplyManifest brings: a new release, as no release has this template.
LEMMA ApplyBrings ==
  ASSUME CommandInv, TagsAreOwn, TagIsFresh, ApplyManifest
  PROVE  Brought'
<1>1. /\ cmd.at = "apply" /\ cmd'.at = "url" /\ SameCommand /\ cmd'.image = cmd.image
  BY GoingOn, GotoLeavesAll DEF ApplyManifest, At
<1>2. /\ cmd.kind = "deploy" /\ cmd.docker = "done" /\ cmd.image = output
  BY <1>1 DEF CommandInv, AppliesAfterTasks, TasksLeave
<1>3. TagWasUsed' = TagWasUsed /\ Namespace' = Namespace
  BY <1>1, SameTag
<1>4. CASE TagWasUsed
  BY <1>3, <1>4 DEF Brought
<1>5. CASE ~TagWasUsed
  <2> DEFINE template == [tag |-> Tag, env |-> ServiceEnvironment(config, cmd.env, FALSE)]
  <2>1. template.tag = Tag
    OBVIOUS
  <2>2. ~(Namespace \in Live /\ services[Namespace].template = template)
    BY <1>1, <1>2, <1>5, <2>1 DEF TagIsFresh
  <2>3. services' = [n \in Live \cup {Namespace} |-> IF n # Namespace THEN services[n] ELSE NewRelease]
    BY <2>2 DEF ApplyManifest, NewRelease
  <2>4. NewRelease.image = registry[Tag] /\ registry[Tag] = cmd.image
    BY <1>2, <1>5 DEF NewRelease, TagsAreOwn
  <2>5. Namespace \in DOMAIN services' /\ services'[Namespace].image = cmd.image
    BY <2>3, <2>4
  <2> QED BY <1>1, <1>3, <2>5 DEF Brought, Live
<1> QED BY <1>4, <1>5

LEMMA BroughtNext ==
  CommandInv /\ PlaceInv /\ TagsAreOwn /\ TagIsFresh /\ Brought /\ [DeployNext]_deployVars
    => Brought'
<1> SUFFICES ASSUME CommandInv, PlaceInv, TagsAreOwn, TagIsFresh, Brought,
                    [DeployNext]_deployVars
             PROVE  Brought'
  OBVIOUS
<1>1. CASE UNCHANGED deployVars \/ EditConfig \/ PushAbandoned
  <2>1. UNCHANGED <<cmd, services>>
    BY <1>1 DEF deployVars, EditConfig, PushAbandoned, clusterVars
  <2> QED BY <2>1 DEF Brought, TagWasUsed, Namespace, Given, Live
<1>2. CASE Working /\ ~ApplyManifest
  <2> SUFFICES ASSUME cmd'.at \in {"url", "complete"}, cmd'.kind = "deploy", ~Given("dry-run")'
               PROVE  Brought'
    BY DEF Brought
  <2>1. SameCommand
    BY <1>2, WorkingLeaves, InfrastructureLeaves
  <2>2. cmd.kind = "deploy" /\ ~Given("dry-run")
    BY <2>1, SameTag DEF SameCommand
  <2>3. GetUrl
    <3>1. ~ApplyInfrastructure
      BY InfrastructureLeaves
    <3>2. cmd.at \in {"manifest", "url"}
      BY <1>2, <3>1, WorkingLeaves, GotoLeavesAll DEF Onwards, BuildPlaces, Working, ApplyManifest, At,
         GenerateOpenNextConfig, NextBuild, OpenNextBuild, PatchAssetPrefix, PatchStandaloneOutput,
         GenerateEntrypoint, UploadInBulk, VerifyUpload, BuildAndPush, AwaitTasks, WriteManifest, GetUrl
    <3>3. ~WriteManifest
      BY <2>2, GotoLeavesAll DEF WriteManifest
    <3> QED BY <1>2, <3>1, <3>2, <3>3 DEF Working, At,
         GenerateOpenNextConfig, NextBuild, OpenNextBuild, PatchAssetPrefix, PatchStandaloneOutput,
         GenerateEntrypoint, UploadInBulk, VerifyUpload, BuildAndPush, AwaitTasks
  <2>4. cmd.at = "url" /\ cmd'.image = cmd.image /\ services' = services
    BY <2>3, GoingOn DEF GetUrl, At, clusterVars
  <2>5. TagWasUsed' = TagWasUsed /\ Namespace' = Namespace
    BY <2>1, SameTag
  <2> QED BY <2>2, <2>4, <2>5 DEF Brought, Live
<1>3. CASE DeleteService \/ DeleteInfrastructure \/ ClearStorage
  <2>1. cmd'.kind = "cleanup"
    BY <1>3, CleanupLeaves DEF SameCommand, PlaceInv
  <2> QED BY <2>1 DEF Brought
<1>4. CASE StartCommand \/ Fail \/ FinishCommand
  BY <1>4, StartLeaves, CleanupLeaves DEF Brought
<1> QED BY <1>1, <1>2, <1>3, <1>4, ApplyBrings, EveryStep

\* A deploy that reports success has left the Service of its namespace with a
\* revision of its own image; only a tag from --tag that was in use when the command
\* began can keep an older revision, or bring another image (deploy.ts).  Whether
\* the image's output was patched, and the revision is ready, it does not look at.
THEOREM CompletedDeployIsLive == DeploySpec => []CompletedIsLive
<1>1. Brought => CompletedIsLive
  BY DEF Brought, CompletedIsLive, TagWasUsed
<1> QED BY <1>1, CommandInvInit, CommandInvNext, PlaceInvInit, PlaceInvNext, TagsAreOwnInit,
           TagsAreOwnNext, TagIsFreshNext, BroughtNext, PTL DEF DeploySpec
=============================================================================
