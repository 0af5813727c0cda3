# Verification of Knative Open Next.js

TLA+ models of the parts of this repository that keep state or do several things
in an order, their TLC runs, and TLAPS proofs about most of them.
Paths are relative to the repository (`src/` here).

- [The system](#the-system): components, state, operations, what is hard
- [The models](#the-models): how modules correspond to code
- [The runs](#the-runs): what each checks, bounds, fairness
- [The proofs](#the-proofs)
- [What the checks found](#what-the-checks-found)
- [What is not modelled](#what-is-not-modelled)
- [Plan](#plan)

To repeat: `tlc -config <run>.cfg <module>.tla` for a run of the table below,
`tlapm <module>_proofs.tla` for a module of proofs.

## The system

kn-next runs Next.js applications, bundled by OpenNext, as Knative Services that
scale from zero to many pods. The pods keep no state of their own that matters:
rendered pages (ISR), tags and cached data live in Redis (or GCS), assets in
object storage, revalidation requests in Kafka. A deploy command or a Kubernetes
operator puts an application into the cluster.

| component | state | operations | interacts with | hard behaviour | correct when |
|---|---|---|---|---|---|
| ISR incremental cache (`kn-next/src/adapters/redis-cache.ts`) | `{prefix}/cache/{build}/{page}.cache` → value, `lastModified`; TTL 1 h | get, set, delete | tag cache, through OpenNext | every pod reads and writes the same keys, any command may fail and the failure is swallowed | a page older than an answered revalidation is not taken for fresh |
| Redis connection (`ensureConnected` of both adapters, `cache-handler.js:49-104`) | a client and a promise per user | connect, settle, reuse | ioredis, which reconnects by itself | concurrent first calls, a connect that is refused because one is under way, a promise never cleared | while Redis answers, every user gets back to it |
| ISR tag cache (`redis-tag-cache.ts`) | `tag:{tag}` → paths, `path:{page}:tags` → tags, `tag:{tag}:revalidatedAt` | getByTag, getByPath, getLastModified, writeTags | incremental cache; shared by all builds | pipelines that are not transactions, read-then-delete of stamps, millisecond ties, slow revalidations | the two indexes agree; no needless miss; no regeneration loop; staleness only for known reasons |
| application cache handler (`apps/file-manager/cache-handler.js`) | Redis entries and tag sets; per pod `memoryCache`, the connection | get, set, set(null), revalidateTag | Next.js, Redis | SMEMBERS, then DEL of what it listed; fallback to memory when the connection is down | an entry is reachable by its tags; a revalidated entry is gone |
| operator (`kn-next-operator/internal/controller/nextapp_controller.go`) | none of its own; objects in the API server | Reconcile: ServiceAccount, PVC, Knative Service, KafkaSource, status | API server, informers, Knative, garbage collector | stale reads, conflicts, lost answers, restarts, re-creation under the same name | the cluster comes to match the spec and the loop comes to rest; a Service mounts no claim that is not there, nor one that is collected later |
| GCS cache (`gcs-cache.ts`) | one object per entry | get (three requests), set, delete | tag cache | a set or delete between the requests of a get | the returned date is not later than the returned content |
| Kafka queue (`kafka-queue.ts`) | one producer per process | send, beforeExit | Kafka | concurrent first sends, failed connect | one connection per process |
| cache event log (`cache-events.ts`, `api/cache/events`) | bounded buffer | log, list, statistics, clear | all adapters | more events than the bound | the newest events are kept, statistics agree with them |
| node server (`node-server.ts`) | open responses | request, stream pump, shutdown | OpenNext handler | stream fails midway, client leaves during back-pressure, SIGTERM | every request ends; shutdown ends |
| bytecode metrics (`bytecode-metrics.ts`) | gauges, counter, last count | init, poll, ready | cache directory | files that come and go between polls | no file is counted twice |
| health, clients (`lib/src/health`, `lib/src/clients.ts`) | lazily made clients | checkDeepHealth | Postgres, Redis | answers after the timeout | "ok" only if every configured dependency answered |
| deploy, build, cleanup (`kn-next/src/cli`, `utils/asset-upload.ts`) | build output, bucket, registry, cluster | deploy, cleanup | gsutil, docker, kubectl | upload and push in parallel, partial failure, two deploys | a Service that is applied has its image and its assets; a cleanup leaves nothing |
| generators (`kn-next/src/generators`) | none | config → manifests, entry point, OpenNext config | deploy | adapter and variables chosen in different files | what they generate, cleanup deletes |
| runtime shim (`packages/cli/internal/shim`) | module cache, loads in flight, snapshots | load, preload, clear, snapshot | GCS | concurrent loads, clear during a load | one load per bundle at a time; no server over half of its files |
| file manager (`apps/file-manager/src/app`) | `files` rows, objects | uploadFile, getFiles, audit, invalidate | Postgres, MinIO, cache handler | two stores written one after the other | a row and its object agree; the list comes to agree with the table |

The flow that ties the first two together is OpenNext's, not the repository's:
a request calls `incrementalCache.get`, then `getLastModified`; -1 turns the hit
into a miss; a miss is rendered, stored with `set`, and the tags that `getByPath`
does not list yet are registered with `writeTags`. `revalidateTag` calls
`getByTag` and `writeTags` with `revalidatedAt`.

## The models

### IsrCache

Several handler calls on pods of several builds over one Redis. One action is
one Redis command; a pipeline is one action per command, because Redis may serve
another connection in between. What a handler computes between two awaits
belongs to the action before it (`Date.now()` is taken in `StampEntry`, before
the SET).

| in the model | in the code |
|---|---|
| `entry[<<b, p>>]` | `{prefix}/cache/{NEXT_BUILD_ID}/{p}.cache` |
| `tagPaths[t]`, `pathTags[p]`, `revalidatedAt[t]` | `tag:{t}`, `path:{p}:tags`, `tag:{t}:revalidatedAt` (0: absent) |
| `req[c]` | the local variables and the program counter of a call |
| `ReadEntry`, `StampEntry`, `WriteEntry` | `incrementalCache.get`, `set` |
| `ReadTags`, `ReadStamp`, `ClearStamp` | `getLastModified`: SMEMBERS, GET pipeline, DEL pipeline |
| `ReadStored` | `getByPath` |
| `AddPath`, `AddTag`, `SetStamp` | `writeTags`: the commands per input |
| `ReadPaths` | `getByTag` |
| `Fail`, `Die` | the `catch` blocks and ignored pipeline errors; a killed pod, a render that throws |
| `Expire` | `EX 3600`, `incrementalCache.delete` |

An entry's content is represented by the revalidations it reflects: `seen[t]` is
how many revalidations of `t` had been announced when it was rendered. History
variables remember which revalidations have been answered (`acked`) and how an
entry came to outlive one (`cause`). They never influence a step.

### CacheHandler

The same idea for the application's own handler: `cache` and `tagKeys` in Redis,
`memory` and `ready` per pod, calls with one action per command. `Client(c)` is
what `ensureConnected` returns. `unmapped`, `spared` and `missed` are history:
`spared` has, for each call of revalidateTag, the keys that its DELs pass over, and
`DelTag` books a lost place only for those. Commands on a connection that was lost
in mid-call fail (`Fail`), `Kill` takes a pod with all its calls and its memory.

### Reconciler

One NextApp name. `obj` and `app` are the API server, `seen` the informer's
copies, `news` the events it has still to see; `pc` and `my` are Reconcile's
position and its copy of the NextApp. Each `CreateOrUpdate` is one action with
three outcomes: nothing differs, after the API server's and Knative's defaults
have been put back (no new version, no event); the write is accepted (and its answer may be
lost); it is refused, because the copy was stale, the role lacks the kind, or a
claim would shrink. A change between the read and the write of one
CreateOrUpdate makes the write fail, which `Refuse` covers. The garbage
collector, Knative (`Route`), users (`Apply`, `DeleteApp`) and others who edit
objects (`Drift`) are the environment. A deletion, by whomever, leaves a claim
going (`Deleted`): Kubernetes keeps one that is in use until its last pod has
stopped (`Finalize`). `ClaimOf` takes over what it finds, going or not, as the code
does; `doomed` remembers whose claim that was. Of the spec, only what steers
Reconcile is kept: image, bytecode cache and its size, Kafka queue, preview labels.

A Knative Service that `kn-next deploy` applied under the same name may be there
at the start; the operator adopts it.

### The parts of a pod

Each keeps its own variables; actions are what runs between two awaits.

| module | source | state | what it leaves to others |
|---|---|---|---|
| NodeServer | `adapters/node-server.ts` | `server`, per request `resp`: listener's position, chunks left and piped, status and headers, whether the client is there | sockets may take a chunk or ask for a drain, sources may fail, clients may leave |
| KafkaQueue | `adapters/kafka-queue.ts` | `producer`, `link` of every producer made, `sending` | kafkajs: a send succeeds or fails |
| GcsCache | `adapters/gcs-cache.ts` | the `object`'s generation, per get its position and what it has read | GCS: each request sees the latest write; metadata may lack the date |
| BytecodeMetrics | `adapters/bytecode-metrics.ts`, `api/metrics/route.ts` | the two registries (`wrapper`, `route`), the directory's `files`, those `found` at the start and `written` since | other pods write and remove files |
| CacheEvents | `adapters/cache-events.ts`, `cache-handler.js:21-47`, `api/cache/events/route.ts`, `app/cache/page.tsx` | `cacheEvents`, the counter; the page's polls in flight and what it shows | the network delays and reorders answers |
| DeepHealth | `lib/src/health`, `clients.ts` (the Redis client), `api/health/route.ts` | `redisCache`, the `check` in progress with its race, what the kubelet heard | dependencies go away, come back, answer late |
| RedisConnection | `ensureConnected` three times | `status` of ioredis, `promise`, `caller` by user | ioredis: connect() is refused while connecting, a lost connection is retried |
| ModuleLoader | `shim/module_loader.ts` | `cache`, `loading`, the calls in flight | storage gets newer bundles, loads fail |
| Bootstrap | `shim/bootstrap.ts`, `module_monitor.ts`, `cache_manager.ts` | `boot`, the `batch` in progress, `loadedUrls`, what is `extracted` | downloads and imports may fail |
| FileManager | `app/actions.ts`, `app/page.tsx`, `api/cache/invalidate` | `fileTable`, `inStorage`, the `cached` list, uploads and readers; `spoiled` is history | Postgres and MinIO fail; the data cache's 60 seconds |

### Generators, Deploy and Release

`Generators` holds pure operators: which adapters `open-next.config.ts` names,
which variables the Service's environment has and what needs them, which objects
the infrastructure consists of and which of them cleanup deletes. Values, ports and
layout of the YAML are left out.

`Deploy` runs the commands one after the other in one workspace: deploy, build and
cleanup, every await a step at which the command may fail (`Fail`). Workspace,
registry, bucket and cluster persist from one command to the next; upload and push
of one command run side by side, and the push of a command that failed meanwhile
may still end (`PushAbandoned`). Builds are numbered; an asset is a build and a
name. `services` has the Services that are live, each with its image, template and
the reasons for which it waives its assets. The patches of OpenNext's output are
steps without an effect: the code passes over what it cannot patch and reports
success, so nothing later can tell. `ClearStorage` may leave any of the files, and
with GCS reports success nevertheless (`cleanup.ts:86`).

`Release` is the abstract specification: what is pushed, which assets can be
fetched, what is live; a release goes live only with a pushed image and, unless it
waives that (`--skip-upload`, `--bucket`, or a tag that an abandoned push took
over), with all the assets its pages refer to; a `Clear` may take any of the assets.
`Deploy!Promise` instantiates it with a refinement mapping; `GoesLiveComplete` is its
specification. Building, checking and writing files are stutters of it.

### MCProcesses

The modules above do not share state, so one run checks them all: the initial
state chooses a component (`part`), and only its steps follow. This adds their state
spaces instead of multiplying them. The modules name their variables and
actions so that they can be extended together, and each has a specification of its
own (`ServerSpec`, `DeploySpec`, ...), which the proofs are about.

## The runs

| run | module | checks | instance |
|---|---|---|---|
| IsrShared | MCIsrCache | TypeOK, IndexSound, StaleHasCause, CachedIsRegistered | 2 calls, 2 pages of 1 tag, 2 revalidations, 2 clock values; failing lookups |
| IsrLive | MCIsrCache | StaleHasCause, NoInfiniteRegeneration | 2 calls on 2 builds, 1 page, 1 tag; every command but the clearing DEL may fail, every call may die |
| IsrTags | MCIsrCache | NoNeedlessMiss, StaleHasCause | 2 calls, 1 page with 2 tags |
| IsrConsumed | MCIsrCache | ConsumedIsRegenerated (violated) | 2 calls, 2 pages of 1 tag, no failures |
| HandlerRaces | MCCacheHandler | UnmappedHasCause, StaleHasCause | 1 pod, 2 calls, 2 keys, 2 tags, no failures |
| HandlerOutages | MCCacheHandler | TypeOK, UnmappedHasCause, StaleHasCause | 2 pods, 2 calls, 1 key, 1 tag, outages and killed pods |
| HandlerSequential | MCCacheHandler | ServedIsCurrent | 2 pods, 1 call at a time, 2 keys, 2 tags, always connected |
| HandlerStale | MCCacheHandler | ServedIsCurrent (violated) | 1 pod, 1 call at a time, connection may be lost |
| ReconcilerSafe | MCReconciler | TypeOK, MountedVolumeExists | 2 creations, 2 releases, 3 shapes of the spec, 1 failure |
| ReconcilerLoop | MCReconciler | Converges, UrlIsSurfaced, Settles | 1 creation, 2 releases, 1 failure, 1 edit of the Service or deletion of it or of the claim |
| ReconcilerRole | MCReconciler | UrlIsSurfaced (violated) | the rights of `config/rbac/role.yaml`, a NextApp with a Kafka queue |
| Processes | MCProcesses | EndedIsWhole, ShutdownEnds, OneConnection, DateNotTooLate, NoFileCountedTwice, NewestAreKept, PageCatchesUp, ReadyWasAnswered, HealthyBecomesReady, RedisIsUsedAgain, LoadingIsInFlight, FetchesAreNeeded, ServesWhole, GoesLiveComplete, LiveHasAssets, CompletedIsLive, CleanedUp, RowDescribesObject, FilesGetListed | one component per behaviour, about 110,000 states; see below |

**Why the bounds are enough.** Two calls are two of anything the code lets
race: readers, renders, revalidations. Two pages of one tag are what makes a
stamp shared; two tags of a page what makes a pipeline longer than one command;
two builds what separates the incremental cache from the tag cache. Two clock
values give before, after and the same millisecond. The second revalidation of a
tag is what puts an older stamp back. For the operator, the second creation
under a name brings objects whose owner is gone, the second release a spec that
changes during a reconcile. `MaxClock`, `MaxRevalidations`, `MaxApps`,
`MaxImages`, `MaxFailures`, `MaxDrifts` are the bounds; the theorems hold for all
of their values.

In Processes: two requests of up to two chunks (a drain before and after the
first); three sends, so that one meets a producer that is connecting and one comes
after it failed; two gets among three versions; three files in the directory of five
ever written, so that some go and come back; two loggers with bounds 1 and 2, and
two polls, so that one answer overtakes another; two outages, so that a dependency
goes away during and after a check; one drop of Redis for three users; three loads on
two routes with one clear in between; three modules in up to three batches; two
commands with eight sets of options on three configurations that differ in all that
the generators look at, with one edit between them; two uploads of the same name, two
readers and one failure. The bounds are the constants named `Max...`.

**Symmetry.** Calls, pages, pods and keys are permuted where the instance treats
them alike. `Idle` fills fields that nobody reads with a `CHOOSE`n value; no
action or property depends on them.

**Fairness.** In IsrLive, weak fairness of `Step(c)` per call: the event loop runs
and Redis answers. Nobody is obliged to request a page or to revalidate, and
`Fail` and `Die` may strike for ever: `FairSpec` does not say that a command
succeeds, except the clearing DEL, which this run keeps from failing (a Redis out
of memory refuses SET and SADD and accepts DEL). If that DEL could fail for ever,
readers would be sent to regenerate for ever. In the Reconciler, weak
fairness of `Reconcile` (controller-runtime works its queue off and retries with
back-off), of each `Deliver(k)` (watches deliver), of `Collect(k)` and `Route`;
none of `Finalize`: a pod may use a claim for ever.
Users, failures and drift are bounded and owe nothing, so the liveness properties
say: once these stop, it converges.

In Processes each component brings its own. NodeServer: the listener goes on
while Node's event loop runs, which includes that a source gives or fails, that a
client reads or leaves; nobody has to send a request. CacheEvents: the page's
timer fires, and strong fairness of a poll's answer: polls may fail again and again,
but not each of them. DeepHealth: timers fire, the kubelet asks again, a
dependency that is up answers, ioredis connects. RedisConnection: calls come and
promises settle, and ioredis retries while Redis is reachable. FileManager: readers go
on and the 60 seconds end. The other components have no liveness property and no
fairness: their calls may stop anywhere.

**Deadlock** is checked except for the Reconciler, whose cluster comes to rest, and
Processes, most of whose components come to an end.

What the runs show:

- *IndexSound*: a tag that getLastModified consults for a page lists the page for
  revalidateTag. It depends on the order of two SADDs.
- *StaleHasCause* (both caches): an entry that survives a revalidation whose
  caller has been answered does so for one of a closed list of reasons. The list
  is the result: overlap, consumed, tie, regress, unregistered, fault for the ISR
  cache; overlap, unlisted, fault for the handler. Mutants that add another
  reason break it. The handler's is about entries in Redis; what a pod serves from
  memory is ServedIsCurrent's.
- *CachedIsRegistered*: without failures of writes, a cached page is registered
  under all its tags, or a call is about to do it.
- *NoNeedlessMiss*: getLastModified answers -1 only for entries that a
  revalidation outdates.
- *NoInfiniteRegeneration*: what the comment at `redis-tag-cache.ts:140` is about.
- *UnmappedHasCause*: an entry that its tag set does not list has lost its place in
  one of four ways: the DEL of the set took along a key that was stored or added
  after its SMEMBERS; it took along a key whose own DEL had failed; the SADD failed;
  the SADD died with its pod.
- *ServedIsCurrent*: with one call at a time and Redis connected, reads are
  consistent across pods.
- *MountedVolumeExists*: across deletion, re-creation and stale caches, a Service
  mounts its own claim, which the garbage collector will not take. The exception is a
  claim that was going when it was taken over (a finding) or that others have deleted
  since; Converges says that step 2 makes a new one.
- *Converges, UrlIsSurfaced, Settles*: level-triggered reconciliation works; the
  one exempted state is `Refused`, a claim larger than the spec now asks for.
- *EndedIsWhole, ShutdownEnds*: a body is never cut short and ended as if it were
  whole (the spoiled one, to which an error's text is appended, is the exception);
  and a pod that got SIGTERM exits, or crashes by the unhandled rejection listed
  below, since Node closes what the client has left.
- *OneConnection*: concurrent first sends share one producer. It says nothing of
  the send after a failed connect, which is a finding.
- *DateNotTooLate*: the three requests of a get mix versions, but only towards a
  date that is too early, which costs a regeneration and never hides one. The
  exception is metadata without a date (a finding).
- *NoFileCountedTwice*: files that come and go between polls never count again. The
  files found at the start are counted once (a finding: the metric's help says
  otherwise).
- *NewestAreKept, PageCatchesUp*: two loggers with different bounds trim one array;
  the page comes to show it whatever order the answers arrive in.
- *ReadyWasAnswered, HealthyBecomesReady*: neither the timer nor a late answer makes
  a pod ready; a pod whose dependencies are up becomes ready although the first
  ping of a new client always fails.
- *RedisIsUsedAgain*: neither a rejected connect nor a promise that is never cleared
  keeps a user from Redis for good.
- *LoadingIsInFlight, FetchesAreNeeded*: deduplicated loads with failures and
  clearCache: no settled promise is left in `loading`.
- *ServesWhole*: the shim's server runs over its runtime and all of the page's files.
- *GoesLiveComplete, LiveHasAssets, CompletedIsLive*: what goes live is whole and
  stays so; "complete" means that the Service has a revision of this command's image,
  which neither the code nor the property knows to be ready, or to be patched.
- *CleanedUp*: cleanup leaves nothing of what is configured; a bucket of GCS is the
  exception, since its failure is ignored (a finding).
- *RowDescribesObject*: a file's row and object belong together, but for names whose
  uploads overlapped or were cut short: the row of such a file may be wrong for good.
- *FilesGetListed*: whatever an upload leaves undone, the list comes to agree with
  the table, and every path in it leads to an object.

Each property of a passing run is broken by a mutant of a mapped definition (the
definitions marked "Mutant of" in the modules, listed in `PROJECT.json`).

## The proofs

For every value of the constants that satisfies the modules' assumptions. Each
proof module has one lemma or step per action, and a theorem that combines them with
PTL; an invariant that is not inductive is proved from a stronger one.

| module | theorem | property | the inductive invariant, and why the property alone is not enough |
|---|---|---|---|
| IsrCache_proofs | TypeCorrect | TypeOK | `TypeInv`: StampEntry writes a field of the entry in hand; HandIsFull says that there is one |
| IsrCacheSafety_proofs | IndexIsSound, if `"addPath" \notin Failing` | IndexSound | `IndexInv`: a call about to send the second SADD has done the first. Without the condition a pipeline goes on after a failed first command |
| IsrCacheSafety_proofs | NoMissIsNeedless | NoNeedlessMiss | `MissInv`: every entry a reader could compare is `Justified`; every stamp newer than it stems from a revalidation its content has not seen. The clock bounds all stamps |
| Reconciler_proofs | MountedVolumesExist; ReconcilerTypes | MountedVolumeExists, TypeOK | `TypeInv`: TypeOK with the counters' ranges. `RecInv`: uids only grow (UidsAscend); no claim belongs to a NextApp newer than the one Reconcile has read (ClaimsAreOld), so a stale Reconcile never takes a claim over from a newer one; the informer is not wrong about whose the claim is (SeenClaimExists); past step 2 the claim is there (StepTwoLeavesClaim); a claim that is going belongs to one that is gone or in `doomed` (GoingIsDoomed) |
| Adapters_proofs | ProducerIsOne | OneConnection | `QueueInv`: only the kept producer has ever been linked |
| Adapters_proofs | HitsAreNotTooLate | DateNotTooLate | `GcsInv`: versions ascend, and what a get has read is not newer than the object, but for a date that was not there |
| Adapters_proofs | FilesAreCountedOnce | NoFileCountedTwice | `MetricsInv`: the counter is lastCount, the largest count seen, and no count exceeds the files found at the start and written since |
| Adapters_proofs | EndedResponsesAreWhole | EndedIsWhole | `ServerInv`: every response is `Orderly`: it ends only when its listener is over, and what was sent and what is left make the body |
| Adapters_proofs | NewestEventsAreKept | NewestAreKept | `EventsInv`: no more events are held than were logged. Lemmas say what slice(0, n) and unshift leave of an array |
| CacheHandler_proofs | HandlerTypes | TypeOK | `TypeInv`: revalidateTag has a tag in hand inside its loop; no revalidation is pending or answered that was not asked for |
| CacheHandler_proofs | UnmappedIsExplained | UnmappedHasCause | `MappedInv`: a call about to store its entry has all the tags of its key still to map |
| CacheHandler_proofs | StaleIsExplained | StaleHasCause | `StaleInv`: LoopCovers: what revalidateTag's loop has not yet deleted and a revalidation should remove is among the keys it is about to delete, or has a cause already |
| CacheHandler_proofs | OneAtATimeIsCurrent, if `OneAtATime` and `AlwaysConnected` | ServedIsCurrent | `CurrentInv`, `MappedInv`: nothing has gone by a revalidation, and what the one call holds is as new as what it was asked for. The conditions are those of the run HandlerSequential; without the second, HandlerStale shows a counterexample, without the first, calls overlap, which is what StaleHasCause is about |
| IsrCacheStale_proofs | StaleIsExplained | StaleHasCause | `StaleInv`: every page that a slow writeTags still has to reach is in what it has left to do (Reaches), and what each call in the tag cache is there for stays what it was asked (Asks). For every set of failing and dying steps |
| IsrCacheStale_proofs | CachedPagesAreRegistered, if `SaddsArrive` | CachedIsRegistered | `RegInv`, with `IndexInv` and `StaleInv`: what a call that registers a page has done, has in hand and has left make all the page's tags. The condition: the two SADDs do not fail and no pod dies before them; otherwise the adapter has nothing that would repeat them |
| Processes_proofs | NobodyWaitsInVain, NoNeedlessFetch | LoadingIsInFlight, FetchesAreNeeded | `LoaderInv`: `loading` and the calls in flight agree (TableIsExact, WaitsAreFounded), and every fetch but the one whose bundle is held had an occasion to be repeated (FetchesAreAccounted) |
| Processes_proofs | ReadyMeansAnswered | ReadyWasAnswered, an action property | `HealthInv`: in a running check no configured dependency counts as unconfigured, so one that is neither down nor awaited is up |
| Processes_proofs | ServerIsWhole | ServesWhole | `BootInv`: the runtime is the first module of the first batch, and is loaded once that batch is done (RuntimeIsFirst) |
| Deploy_proofs | AssetsStay | LiveHasAssets | `LiveInv`, `CommandInv`: which stages of a command have what behind them: a tag in hand is pushed, its files are in the bucket or waived |
| Deploy_proofs | DeployImplementsRelease | GoesLiveComplete | the refinement: the initial state maps to Release's, each action to one of Release's or to a stutter, under the same invariant |
| Deploy_proofs | CompletedDeployIsLive | CompletedIsLive | `TagsAreOwn`, `TagIsFresh`, `Brought`: tags grow with the commands, a push that goes on has the tag of a command that is over, so until a deploy applies its manifest no release has its tag and Knative must make a new revision |
| Deploy_proofs | CleanupIsComplete | CleanedUp | `PlaceInv`, `CleanInv`: the objects are those of the manifests, each of which cleanup deletes by name (DeletedByName), one service per step; only GCS reports success over files that are left |

The hypotheses are named in the table, are true in a run that checks the same
property, and the code justifies each or gives no guarantee without it.

Only model-checked: everything with liveness (NoInfiniteRegeneration, Converges,
UrlIsSurfaced, Settles, ShutdownEnds, PageCatchesUp, HealthyBecomesReady,
RedisIsUsedAgain, FilesGetListed), which is out of the prover's reach, and
RowDescribesObject. Every other safety property of a passing run is proved.

## What the checks found

- A tag's stamp is cleared by the first reader of any page of the tag; the other
  pages stay stale although the comment expects the next set to refresh them
  (run IsrConsumed; `redis-tag-cache.ts:139-146`).
- A pod that loses Redis serves entries from memory that a revalidation, even its
  own, removed from Redis (run HandlerStale; `cache-handler.js:207, 271, 306`).
- The operator has no right to KafkaSources, so a NextApp with a Kafka queue never
  gets its URL (run ReconcilerRole; `nextapp_controller.go:46-51, 237`).
- Among the findings without a run, those of the commands and the process: MinIO
  without Redis is given the cache for GCS, which cannot work with it; no manifest
  ever sets KAFKA_BROKER_URL though Kafka is the default queue; the infrastructure's
  hosts are in the namespace "default" whatever `--namespace` says; `--bucket` moves
  the files but not the URL they are fetched from; `--skip-infra` leaves the release
  without its variables; KN_NAMESPACE is never looked at; a stream that fails after
  back-pressure is an unhandled rejection and ends the process; the audit page
  fetches for ever.
- Where a property names an exception, a finding says what the code does there: the
  operator takes over a claim that is going (`nextapp_controller.go:92`); the Kafka
  producer of a failed connect is kept (`kafka-queue.ts:21`); an entry of GCS without
  a date counts as newest (`gcs-cache.ts:71`); files found at the start count as
  written (`bytecode-metrics.ts:110`); patches that fail are reported as done
  (`deploy.ts:476`); a bucket that cannot be emptied is reported as cleared
  (`cleanup.ts:86`); an upsert keeps the old path (`actions.ts:38`); an error's text
  completes a page that has begun (`node-server.ts:105`).
- A release without a cache has a tag cache on Redis and no REDIS_URL
  (`open-next-config.ts:72`); the Kafka producer's "graceful shutdown" never runs
  (`kafka-queue.ts:84-85`).
- Also without a run: the comment on the key patterns (`redis-tag-cache.ts:55`), the
  Buffer conversion that never happens (`redis-cache.ts:15-23`), the KafkaSource
  that is not watched, the order of steps and the probes that
  `docs/operator/reconciler.md` gives, and what is left behind when a spec no
  longer asks for it. `PROJECT.json` has them with their lines.

## What is not modelled

- Conversions of cache values (Map, Buffer), key spelling, logging; the text of
  manifests, environment values, YAML and JSON.
- Lag between the pods' clocks. `Date.now()` is one clock; skew would add to the
  ties and regressions of StaleHasCause.
- The other lazy clients of `clients.ts` (Postgres, MinIO), which keep nothing but
  themselves, and the environment overrides KN_* of names and URLs.
- Code that nothing calls: `generateKafkaEventingManifest`, `loader.ts`,
  `findBestSnapshot`, `restoreSnapshot`, `markLoaded`. The uploads of CacheManager are
  stubs.
- Pages and routes that only read or show (user interface, audit, users, cache-tests,
  cache-stats); scaffolding (`cmd/main.go`), generated code, the Go CLI and build
  scripts, which rewrite files once; Makefiles, dashboards, static manifests (the
  role's rules are the constant `Granted`).
- Whether the patches of `deploy.ts:59-299` took effect, and whether a revision
  becomes ready: deploy looks at neither.
- A partial `.open-next` that a failed `open-next build` leaves and a later
  `--skip-build` would ship: OpenNextBuild is one step that leaves the old output or
  a new one.
- Assets of stable names (`public/*`), which a later upload overwrites: an asset of
  LiveHasAssets is a build and a name, as the hashed files of `_next/static` are.
- Whether an adapter finds its environment, and in which namespace: constants of the
  generators decide it, so the findings say it.
- Snapshots of the shim's ModuleMonitor, which only call an upload that is a stub.
- Two commands of kn-next at the same time: they would meet in one workspace, which
  the code does not foresee. A push outliving its command is modelled.

## Plan

Done: all modules of the tables above, the refinement Deploy to Release, the
theorems listed. What could come next:

1. An abstract specification *TagRevalidation* of what both caches promise (an entry
   revalidated by tag is not served afterwards, except for the named causes), with
   IsrCache and CacheHandler shown to implement it.
2. FileManager composed with CacheHandler in place of its abstract data cache.
