----------------------------- MODULE Reconciler -----------------------------
(***************************************************************************)
(* The kn-next operator's control loop for one NextApp name                *)
(* (internal/controller/nextapp_controller.go): Reconcile creates or       *)
(* updates a ServiceAccount, a PersistentVolumeClaim, a Knative Service    *)
(* and a KafkaSource, in that order, and then the NextApp's status.        *)
(*                                                                         *)
(* controller-runtime reads through an informer cache that lags the API    *)
(* server (not for the KafkaSource, which is unstructured), writes with    *)
(* optimistic locking, and runs one Reconcile per name at a time; an error *)
(* or an event on a watched object queues another one.  CreateOrUpdate's   *)
(* read and write are one step: a change between the two makes the write   *)
(* fail, which Refuse covers.                                              *)
(***************************************************************************)
EXTENDS Integers, FiniteSets

CONSTANTS
    Shapes,       \* the specs users apply, apart from the image
    Absent,       \* an object that does not exist
    Granted,      \* the kinds that the operator's ClusterRole lets it access
    Drifting,     \* the kinds that others delete or edit
    MaxApps,      \* bound: how often the NextApp is created
    MaxImages,    \* bound: the images released over time
    MaxFailures,  \* bound: failed API calls, lost answers, operator restarts
    MaxDrifts     \* bound: objects deleted or edited by others

Kinds   == {"sa", "pvc", "ksvc", "kafka"}

\* What the informer caches: structured objects only.
Cached == {"app", "sa", "pvc", "ksvc"}

\* Mutant of Owned: Owns(Service) forgotten.
OwnedButService == {"sa", "pvc"}

\* SetupWithManager's Owns: events on these queue their owner.
Owned == {"sa", "pvc", "ksvc"}

\* bytecode: EnableBytecodeCache.  size: BytecodeCacheSize.  kafka: the Queue is
\* "kafka".  preview: Preview.Enabled.
Shape == [bytecode : BOOLEAN, size : Nat, kafka : BOOLEAN, preview : BOOLEAN]

ASSUME ShapesAssumption == Shapes # {} /\ Shapes \subseteq Shape
ASSUME KindsAssumption  == Granted \subseteq Kinds /\ Drifting \subseteq Kinds
ASSUME BoundsAssumption == {MaxApps, MaxImages, MaxFailures, MaxDrifts} \subseteq Nat

\* uid: which creation of the name this is.  image: which release.  url:
\* whether status.url is set.
App == [uid : 1..MaxApps, image : 1..MaxImages, shape : Shapes, url : BOOLEAN]

\* An owner of 0 is no controller reference.  going: the claim's deletion
\* timestamp is set.  token, image and sink are what others may edit.
Objects ==
    [sa    |-> [owner : 0..MaxApps, token : BOOLEAN],
     pvc   |-> [owner : 0..MaxApps, size : Nat, going : BOOLEAN],
     ksvc  |-> [owner : 0..MaxApps, mount : BOOLEAN, preview : BOOLEAN, url : BOOLEAN,
               image : 0..MaxImages],
     kafka |-> [owner : 0..MaxApps, sink : BOOLEAN]]

ASSUME AbsentAssumption == Absent \notin App /\ \A k \in Kinds : Absent \notin Objects[k]

VARIABLES
    app,       \* the NextApp in the API server
    obj,       \* the objects in the API server, by kind
    seen,      \* the informer cache's copies
    news,      \* the events that the informer has yet to see, by kind
    queued,    \* whether the name is in the work queue
    pc,        \* the step Reconcile is at
    my,        \* nextApp, as Reconcile read it
    url,       \* ksvc.Status.URL # nil, as CreateOrUpdate left it
    doomed,    \* history: the uids whose claim was going when they took it, or has been
               \* deleted by others since
    apps, images, failures, drifts    \* counters for the bounds

bounds == <<apps, images, failures, drifts>>
vars   == <<app, obj, seen, news, queued, pc, my, url, doomed, bounds>>

Steps == {"idle"} \cup Kinds \cup {"status"}

Init ==
    /\ app = Absent
    /\ \E ksvc \in {Absent, [owner |-> 0, mount |-> FALSE, preview |-> FALSE,
                             url |-> TRUE, image |-> 0]} :    \* "kn-next deploy" has applied one
         obj = [sa |-> Absent, pvc |-> Absent, ksvc |-> ksvc, kafka |-> Absent]
    /\ seen = [k \in Cached |-> IF k = "app" THEN app ELSE obj[k]]
    /\ news = [k \in Cached |-> "none"]
    /\ queued = FALSE
    /\ pc = "idle" /\ my = Absent /\ url = FALSE
    /\ doomed = {}
    /\ apps = 0 /\ images = 0 /\ failures = 0 /\ drifts = 0

\* A write to the API server makes an event, which is "ours" if it is about a
\* NextApp or an object that has an owner.
Event(k, ours) ==
    news' = [x \in Cached |-> IF x # k THEN news[x]
                              ELSE IF ours \/ news[k] = "ours" THEN "ours" ELSE "other"]

AppEvent == Event("app", TRUE)

Store(k, new) ==
    /\ obj' = [obj EXCEPT ![k] = new]
    /\ Event(k, \E o \in {obj[k], new} \ {Absent} : o.owner # 0)

----------------------------------------------------------------------------
(* Reconcile *)

\* Mutant of Start: a NextApp that is gone is reconciled nevertheless.
StartAnyway ==
    /\ pc = "idle" /\ queued
    /\ queued' = FALSE
    /\ my' = seen["app"]
    /\ pc' = "sa"
    /\ UNCHANGED <<app, obj, seen, news, url, doomed, bounds>>

\* Reconcile begins: a NextApp that is not found is done with.
Start ==
    /\ pc = "idle" /\ queued
    /\ queued' = FALSE
    /\ my' = seen["app"]
    /\ pc' = IF seen["app"] = Absent THEN "idle" ELSE "sa"
    /\ UNCHANGED <<app, obj, seen, news, url, doomed, bounds>>

Return == pc' = "idle" /\ my' = Absent /\ url' = FALSE

\* Mutant of Error: the error is logged and nil returned.
ErrorLogged == Return /\ UNCHANGED queued

\* Reconcile returns an error: the name is queued again.
Error == Return /\ queued' = TRUE

\* Mutant of AfterSa: a claim that exists already is left as it is.
AfterSaUnlessClaimed ==
    IF my.shape.bytecode /\ seen["pvc"] = Absent THEN "pvc" ELSE "ksvc"

\* The objects that the spec does not ask for are passed over, never deleted.
AfterSa   == IF my.shape.bytecode THEN "pvc" ELSE "ksvc"
AfterKsvc == IF my.shape.kafka THEN "kafka" ELSE "status"

\* What CreateOrUpdate reads, and whether it is the latest version.
Existing(k) == IF k \in Cached THEN seen[k] ELSE obj[k]
Latest(k)   == k \in Cached => news[k] = "none"

\* The API server takes the write: a create if there is no such object, an
\* update of the version read.  A claim cannot shrink.
Accepts(k, new) ==
    /\ k \in Granted
    /\ IF Existing(k) = Absent THEN obj[k] = Absent ELSE Latest(k)
    /\ (k = "pvc" /\ obj[k] # Absent) => obj[k].size <= new.size

\* controllerutil.CreateOrUpdate, with what the object's url becomes: nothing is
\* written if nothing differs.
CreateOrUpdate(k, new, next, u) ==
    /\ pc = k
    /\ \/ /\ k \in Granted /\ Existing(k) = new
          /\ pc' = next /\ url' = u
          /\ UNCHANGED <<obj, news, queued, my, failures>>
       \/ /\ Existing(k) # new /\ Accepts(k, new)
          /\ Store(k, new)
          /\ \/ pc' = next /\ url' = u /\ UNCHANGED <<queued, my, failures>>
             \/ /\ failures < MaxFailures /\ failures' = failures + 1
                /\ Error    \* the answer is lost
       \/ /\ k \notin Granted \/ (Existing(k) # new /\ ~Accepts(k, new))
          /\ Error
          /\ UNCHANGED <<obj, news, failures>>
    /\ UNCHANGED <<app, seen, apps, images, drifts>>

ServiceAccount ==
    /\ CreateOrUpdate("sa", [owner |-> my.uid, token |-> FALSE], AfterSa, url)
    /\ UNCHANGED doomed

\* Nothing looks at a deletion timestamp, and an update leaves it as it is: a
\* claim that is going is taken over like any other.
ClaimOf(old) ==
    [owner |-> my.uid, size |-> my.shape.size, going |-> old # Absent /\ old.going]

Claim ==
    LET new == ClaimOf(seen["pvc"])
    IN  /\ CreateOrUpdate("pvc", new, "ksvc", url)
        /\ doomed' = IF obj' = obj THEN doomed
                     ELSE IF new.going THEN doomed \cup {my.uid} ELSE doomed \ {my.uid}

\* Labels are merged into the existing ones, the template is replaced, the
\* status is Knative's.
ServiceOf(old) ==
    [owner   |-> my.uid,
     mount   |-> my.shape.bytecode,
     preview |-> my.shape.preview \/ (old # Absent /\ old.preview),
     url     |-> old # Absent /\ old.url,
     image   |-> my.image]

Service ==
    LET new == ServiceOf(seen["ksvc"])
    IN  /\ CreateOrUpdate("ksvc", new, AfterKsvc, new.url)
        /\ UNCHANGED doomed

KafkaSource ==
    /\ CreateOrUpdate("kafka", [owner |-> my.uid, sink |-> TRUE], "status", url)
    /\ UNCHANGED doomed

\* Mutant of Status: the update always changes something (a heartbeat).
StatusTouched ==
    /\ pc = "status"
    /\ IF app = my
         THEN app' = [my EXCEPT !.url = url] /\ AppEvent /\ Return /\ UNCHANGED queued
         ELSE Error /\ UNCHANGED <<app, news>>
    /\ UNCHANGED <<obj, seen, doomed, bounds>>

\* Status().Update carries the version that Reconcile read, and every change
\* of the NextApp makes another version.
Status ==
    /\ pc = "status"
    /\ \/ /\ ~url \/ my.url
          /\ ~url \/ app = my
          /\ Return
          /\ UNCHANGED <<app, news, queued>>
       \/ /\ url /\ ~my.url /\ app = my
          /\ app' = [my EXCEPT !.url = TRUE]
          /\ AppEvent
          /\ Return
          /\ UNCHANGED queued
       \/ /\ url /\ app # my
          /\ Error
          /\ UNCHANGED <<app, news>>
    /\ UNCHANGED <<obj, seen, doomed, bounds>>

Reconcile == Start \/ ServiceAccount \/ Claim \/ Service \/ KafkaSource \/ Status

\* An API call fails, for whatever reason.
Refuse ==
    /\ pc # "idle" /\ failures < MaxFailures
    /\ failures' = failures + 1
    /\ Error
    /\ UNCHANGED <<app, obj, seen, news, doomed, apps, images, drifts>>

\* The operator dies; the next one lists everything before it starts.
Restart ==
    /\ failures < MaxFailures
    /\ failures' = failures + 1
    /\ Return
    /\ seen' = [k \in Cached |-> IF k = "app" THEN app ELSE obj[k]]
    /\ news' = [k \in Cached |-> "none"]
    /\ queued' = (app # Absent)
    /\ UNCHANGED <<app, obj, doomed, apps, images, drifts>>

----------------------------------------------------------------------------
(* The cluster around the operator. *)

\* The events about an object reach the informer; "ours" queue the owner.
Deliver(k) ==
    /\ news[k] # "none"
    /\ seen' = [seen EXCEPT ![k] = IF k = "app" THEN app ELSE obj[k]]
    /\ news' = [news EXCEPT ![k] = "none"]
    /\ queued' = (queued \/ (news[k] = "ours" /\ k \in {"app"} \cup Owned))
    /\ UNCHANGED <<app, obj, pc, my, url, doomed, bounds>>

Apply(s) ==
    /\ images < MaxImages /\ images' = images + 1
    /\ \/ /\ app = Absent /\ apps < MaxApps /\ apps' = apps + 1
          /\ app' = [uid |-> apps + 1, image |-> images + 1, shape |-> s, url |-> FALSE]
       \/ /\ app # Absent
          /\ app' = [app EXCEPT !.image = images + 1, !.shape = s]
          /\ UNCHANGED apps
    /\ AppEvent
    /\ UNCHANGED <<obj, seen, queued, pc, my, url, doomed, failures, drifts>>

DeleteApp ==
    /\ app # Absent
    /\ app' = Absent
    /\ AppEvent
    /\ UNCHANGED <<obj, seen, queued, pc, my, url, doomed, bounds>>

\* What a deletion leaves at first: a claim has a finalizer (pvc-protection), so
\* it stays, going, until no pod uses it.
Deleted(k) == IF k = "pvc" THEN [obj[k] EXCEPT !.going = TRUE] ELSE Absent

\* The garbage collector deletes objects whose owner is gone.
Collect(k) ==
    /\ obj[k] # Absent /\ Deleted(k) # obj[k]
    /\ obj[k].owner \notin {0} \cup {a.uid : a \in {app} \ {Absent}}
    /\ Store(k, Deleted(k))
    /\ UNCHANGED <<app, seen, queued, pc, my, url, doomed, bounds>>

\* The last pod that used the claim has stopped.
Finalize ==
    /\ obj["pvc"] # Absent /\ obj["pvc"].going
    /\ Store("pvc", Absent)
    /\ UNCHANGED <<app, seen, queued, pc, my, url, doomed, bounds>>

\* Knative gives the Service its URL.
Route ==
    /\ obj["ksvc"] # Absent /\ ~obj["ksvc"].url
    /\ Store("ksvc", [obj["ksvc"] EXCEPT !.url = TRUE])
    /\ UNCHANGED <<app, seen, queued, pc, my, url, doomed, bounds>>

\* Somebody deletes an object, or edits the field that Reconcile also sets.
Drift(k) ==
    /\ k \in Drifting /\ obj[k] # Absent /\ Deleted(k) # obj[k]
    /\ drifts < MaxDrifts /\ drifts' = drifts + 1
    /\ \E new \in {Deleted(k), CASE k = "sa"    -> [obj[k] EXCEPT !.token = TRUE]
                                [] k = "ksvc"  -> [obj[k] EXCEPT !.image = 0]
                                [] k = "kafka" -> [obj[k] EXCEPT !.sink = FALSE]
                                [] OTHER       -> Deleted(k)} :
         Store(k, new)
    /\ doomed' = IF k = "pvc" THEN doomed \cup {obj[k].owner} ELSE doomed
    /\ UNCHANGED <<app, seen, queued, pc, my, url, apps, images, failures>>

Next ==
    \/ Reconcile \/ Refuse \/ Restart
    \/ \E k \in Cached : Deliver(k)
    \/ \E s \in Shapes : Apply(s)
    \/ DeleteApp
    \/ \E k \in Kinds : Collect(k) \/ Drift(k)
    \/ Finalize \/ Route

Spec == Init /\ [][Next]_vars

\* controller-runtime works its queue off, events arrive, the garbage collector
\* and Knative do their work.
FairSpec ==
    /\ Spec
    /\ WF_vars(Reconcile)
    /\ \A k \in Cached : WF_vars(Deliver(k))
    /\ \A k \in Kinds : WF_vars(Collect(k))
    /\ WF_vars(Route)

----------------------------------------------------------------------------
TypeOK ==
    /\ app \in App \cup {Absent}
    /\ \A k \in Kinds : obj[k] \in Objects[k] \cup {Absent}
    /\ \A k \in Cached : seen[k] \in (IF k = "app" THEN App ELSE Objects[k]) \cup {Absent}
    /\ news \in [Cached -> {"none", "other", "ours"}]
    /\ queued \in BOOLEAN /\ url \in BOOLEAN
    /\ pc \in Steps /\ my \in App \cup {Absent}
    /\ (pc = "idle") <=> (my = Absent)
    /\ doomed \subseteq 0..MaxApps

\* The Knative Service of a NextApp mounts no claim that is missing or that the
\* garbage collector will still delete: step 2 comes before step 3, and a claim
\* that an earlier NextApp of the name left is taken over first.  The exception
\* is a claim that was going when it was taken over, or that others have deleted
\* since: it goes away under the Service, until step 2 makes a new one.
MountedVolumeExists ==
    LET ksvc == obj["ksvc"]  pvc == obj["pvc"] IN
    (app # Absent /\ ksvc # Absent /\ ksvc.owner = app.uid /\ ksvc.mount)
        => \/ pvc # Absent /\ pvc.owner = app.uid
           \/ app.uid \in doomed

\* The claim is larger than the spec asks for: step 2 fails for good.
Refused == app # Absent /\ app.shape.bytecode /\ obj["pvc"] # Absent
           /\ app.shape.size < obj["pvc"].size

\* What the spec asks for is there.
Synced ==
    /\ obj["sa"] = [owner |-> app.uid, token |-> FALSE]
    /\ app.shape.bytecode => /\ obj["pvc"] # Absent
                             /\ obj["pvc"].owner = app.uid /\ obj["pvc"].size = app.shape.size
    /\ LET ksvc == obj["ksvc"] IN
         /\ ksvc # Absent
         /\ ksvc.owner = app.uid /\ ksvc.image = app.image
         /\ ksvc.mount = app.shape.bytecode /\ (app.shape.preview => ksvc.preview)
    /\ app.shape.kafka => obj["kafka"] = [owner |-> app.uid, sink |-> TRUE]

\* docs/operator/reconciler.md:3 "ensures the Kubernetes cluster matches the
\* declared Spec": once users, failures and drift stop, what the last spec asks
\* for is there and stays, whatever was lost, stale or refused on the way.
Converges == <>[](app = Absent \/ Refused \/ Synced)

\* docs/operator/reconciler.md:32 "surfaces the final live URL".
UrlIsSurfaced == <>[](app = Absent \/ Refused \/ app.url)

\* Reconcile's own writes cause events that queue it again; this comes to rest.
Settles == <>[](pc = "idle" /\ ~queued) \/ []<>Refused
=============================================================================
