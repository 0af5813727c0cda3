-------------------------- MODULE Reconciler_proofs --------------------------
(***************************************************************************)
(* Proofs about the operator's control loop, for any shapes, roles and     *)
(* numbers of applications, images, failures and edits.                    *)
(***************************************************************************)
EXTENDS Reconciler, TLAPS

\* The claim belongs to the NextApp with this uid, or it may have gone for the
\* reason that the history knows.
Owns(uid) == (obj["pvc"] # Absent /\ obj["pvc"].owner = uid) \/ uid \in doomed

\* A claim that will go from under the present NextApp is known to.
GoingIsDoomed ==
    (app # Absent /\ obj["pvc"] # Absent /\ obj["pvc"].going /\ obj["pvc"].owner = app.uid)
        => app.uid \in doomed

\* What TypeOK needs to be inductive.
Counted ==
    /\ DOMAIN obj = Kinds /\ DOMAIN seen = Cached
    /\ apps \in 0..MaxApps /\ images \in 0..MaxImages

\* The uid only grows, and what Reconcile and the informer have read is not newer
\* than the API server, nor Reconcile's copy newer than the informer's.
UidsAscend ==
    /\ app # Absent => app.uid = apps
    /\ seen["app"] # Absent => seen["app"].uid <= apps
    /\ my # Absent => my.uid <= apps
    /\ my # Absent /\ seen["app"] # Absent => my.uid <= seen["app"].uid

\* No claim belongs to a NextApp newer than the one that Reconcile has read or
\* will read next.
ClaimsAreOld ==
    /\ \A claim \in {obj["pvc"], seen["pvc"]} \ {Absent} :
         /\ claim.owner <= apps
         /\ my # Absent => claim.owner <= my.uid
         /\ seen["app"] # Absent => claim.owner <= seen["app"].uid
    /\ obj["ksvc"] # Absent => obj["ksvc"].owner <= apps

\* The informer may lag behind, but not about whose the claim of the present
\* NextApp is.
SeenClaimExists ==
    app # Absent /\ seen["pvc"] # Absent /\ seen["pvc"].owner = app.uid => Owns(app.uid)

\* From step 3 on, Reconcile's claim is there.
StepTwoLeavesClaim ==
    app # Absent /\ pc \in {"ksvc", "kafka", "status"} /\ my.uid = app.uid /\ my.shape.bytecode
        => Owns(app.uid)

VolumeInv ==
    /\ UidsAscend /\ ClaimsAreOld /\ GoingIsDoomed /\ SeenClaimExists /\ StepTwoLeavesClaim
    /\ MountedVolumeExists

TypeInv == TypeOK /\ Counted

RecInv == TypeInv /\ VolumeInv

----------------------------------------------------------------------------
(* Types *)

LEMMA KindsAre ==
  /\ Kinds = {"sa", "pvc", "ksvc", "kafka"} /\ Cached = {"app", "sa", "pvc", "ksvc"}
  /\ \A k \in Kinds : Absent \notin Objects[k]
  /\ Objects["sa"] = [owner : 0..MaxApps, token : BOOLEAN]
  /\ Objects["pvc"] = [owner : 0..MaxApps, size : Nat, going : BOOLEAN]
  /\ Objects["ksvc"] = [owner : 0..MaxApps, mount : BOOLEAN, preview : BOOLEAN, url : BOOLEAN,
                        image : 0..MaxImages]
  /\ Objects["kafka"] = [owner : 0..MaxApps, sink : BOOLEAN]
  /\ MaxApps \in Nat /\ MaxImages \in Nat
  BY AbsentAssumption, BoundsAssumption DEF Kinds, Cached, Objects

LEMMA OwnersAreNat ==
  ASSUME TypeOK
  PROVE  /\ \A o \in {obj["pvc"], seen["pvc"]} \ {Absent} : o.owner \in Nat
         /\ obj["ksvc"] # Absent => obj["ksvc"].owner \in Nat
         /\ \A a \in {app, my, seen["app"]} \ {Absent} : a.uid \in Nat
<1>1. "pvc" \in Kinds /\ "ksvc" \in Kinds /\ {"app", "pvc"} \subseteq Cached
  BY KindsAre
<1>2. /\ obj["pvc"] \in Objects["pvc"] \cup {Absent} /\ obj["ksvc"] \in Objects["ksvc"] \cup {Absent}
      /\ seen["pvc"] \in Objects["pvc"] \cup {Absent} /\ seen["app"] \in App \cup {Absent}
      /\ app \in App \cup {Absent} /\ my \in App \cup {Absent}
  BY <1>1 DEF TypeOK
<1>3. \A o \in Objects["pvc"] : o.owner \in Nat
  BY KindsAre
<1>4. \A o \in Objects["ksvc"] : o.owner \in Nat
  BY KindsAre
<1>5. \A a \in App : a.uid \in Nat
  BY KindsAre DEF App
<1> QED BY <1>2, <1>3, <1>4, <1>5

LEMMA InitInv == Init => RecInv
<1> SUFFICES ASSUME Init PROVE RecInv
  OBVIOUS
<1> DEFINE applied == [owner |-> 0, mount |-> FALSE, preview |-> FALSE, url |-> TRUE, image |-> 0]
<1>1. PICK ksvc \in {Absent, applied} :
        obj = [sa |-> Absent, pvc |-> Absent, ksvc |-> ksvc, kafka |-> Absent]
  BY DEF Init
<1>2. applied \in Objects["ksvc"] /\ applied.mount = FALSE /\ applied.owner = 0
  BY KindsAre
<1> HIDE DEF applied
<1>a. ksvc \in Objects["ksvc"] \cup {Absent} /\ obj["ksvc"] = ksvc /\ obj["pvc"] = Absent
  BY <1>1, <1>2
<1>b. DOMAIN obj = {"sa", "pvc", "ksvc", "kafka"} /\ obj["sa"] = Absent /\ obj["kafka"] = Absent
  BY <1>1
<1>3. /\ \A k \in Kinds : obj[k] \in Objects[k] \cup {Absent}
      /\ DOMAIN obj = Kinds
      /\ obj["pvc"] = Absent /\ obj["ksvc"] = ksvc
  BY <1>a, <1>b, KindsAre
<1>4. /\ seen = [k \in Cached |-> IF k = "app" THEN Absent ELSE obj[k]] /\ app = Absent
      /\ pc = "idle" /\ my = Absent /\ queued = FALSE /\ url = FALSE
      /\ news = [k \in Cached |-> "none"] /\ apps = 0 /\ images = 0 /\ doomed = {}
  BY DEF Init
<1>5. \A k \in Cached : seen[k] \in (IF k = "app" THEN App ELSE Objects[k]) \cup {Absent}
  BY <1>3, <1>4, KindsAre
<1>6. TypeOK
  BY <1>3, <1>4, <1>5 DEF TypeOK, Steps
<1>7. Counted
  BY <1>3, <1>4, KindsAre DEF Counted
<1>8. seen["app"] = Absent /\ seen["pvc"] = Absent
  BY <1>3, <1>4, KindsAre
<1>9. VolumeInv
  BY <1>1, <1>2, <1>3, <1>4, <1>8 DEF VolumeInv, UidsAscend, ClaimsAreOld, GoingIsDoomed,
     SeenClaimExists, StepTwoLeavesClaim, MountedVolumeExists
<1> QED BY <1>6, <1>7, <1>9 DEF RecInv, TypeInv

\* An event is one of the kinds of event.
LEMMA EventIsOne ==
  ASSUME TypeOK, NEW k, NEW ours, Event(k, ours)
  PROVE  news' \in [Cached -> {"none", "other", "ours"}]
  BY DEF TypeOK, Event

\* CreateOrUpdate either goes on to the next step, with the object as it should
\* be or as the informer says it is, or returns an error; it writes nothing else.
LEMMA CreateOrUpdateDoes ==
  ASSUME TypeInv, NEW k \in Kinds, NEW new \in Objects[k], NEW next \in Steps \ {"idle"},
         NEW u \in BOOLEAN, CreateOrUpdate(k, new, next, u), doomed' \subseteq 0..MaxApps
  PROVE  /\ UNCHANGED <<app, seen, apps, images>>
         /\ obj' = obj \/ obj' = [obj EXCEPT ![k] = new]
         /\ \/ pc' = "idle" /\ my' = Absent
            \/ pc' = next /\ my' = my /\ (Existing(k) = new \/ obj' = [obj EXCEPT ![k] = new])
         /\ TypeInv'
<1>1. /\ pc = k /\ UNCHANGED <<app, seen, apps, images>>
      /\ \/ /\ Existing(k) = new /\ UNCHANGED <<obj, news, queued, my>> /\ pc' = next /\ url' = u
         \/ /\ Store(k, new)
            /\ \/ pc' = next /\ url' = u /\ UNCHANGED <<queued, my>>
               \/ Error
         \/ Error /\ UNCHANGED <<obj, news>>
  BY DEF CreateOrUpdate
<1>2. my # Absent
  BY <1>1, KindsAre DEF TypeInv, TypeOK
<1>3. obj' = obj \/ obj' = [obj EXCEPT ![k] = new]
  BY <1>1 DEF Store
<1>4. news' \in [Cached -> {"none", "other", "ours"}]
  BY <1>1, EventIsOne DEF Store, TypeInv, TypeOK
<1>5. \/ pc' = "idle" /\ my' = Absent /\ queued' = TRUE /\ url' = FALSE
      \/ /\ pc' = next /\ my' = my /\ (Existing(k) = new \/ obj' = [obj EXCEPT ![k] = new])
         /\ queued' = queued /\ url' = u
  BY <1>1 DEF Error, Return, Store
<1>6. DOMAIN obj' = Kinds /\ \A x \in Kinds : obj'[x] \in Objects[x] \cup {Absent}
  BY <1>3 DEF TypeInv, TypeOK, Counted
<1>7. TypeOK'
  <2>1. queued' \in BOOLEAN /\ url' \in BOOLEAN
    BY <1>5 DEF TypeInv, TypeOK
  <2>2. pc' \in Steps /\ my' \in App \cup {Absent} /\ ((pc' = "idle") <=> (my' = Absent))
    BY <1>2, <1>5 DEF TypeInv, TypeOK, Steps
  <2>3. /\ app' \in App \cup {Absent}
        /\ \A x \in Cached : seen'[x] \in (IF x = "app" THEN App ELSE Objects[x]) \cup {Absent}
    BY <1>1 DEF TypeInv, TypeOK
  <2> QED BY <1>4, <1>6, <2>1, <2>2, <2>3 DEF TypeOK
<1>8. Counted'
  BY <1>1, <1>6 DEF TypeInv, Counted
<1> QED BY <1>1, <1>3, <1>5, <1>7, <1>8 DEF TypeInv

----------------------------------------------------------------------------
(* Steps that do not touch a claim *)

\* Where Reconcile may go without having passed step 2.
Before == {"idle", "sa", "pvc"}

\* Nothing the claims depend on changes, except that the NextApp may go, the
\* claim may be going from now on, the Service may go or be edited, and Reconcile
\* may go on or return.
LEMMA ClaimsUntouched ==
  ASSUME RecInv, TypeInv',
         \/ app' = Absent
         \/ app # Absent /\ app' # Absent /\ app'.uid = app.uid,
         doomed \subseteq doomed',
         \/ obj'["pvc"] = obj["pvc"]
         \/ /\ obj["pvc"] # Absent /\ obj'["pvc"] # Absent
            /\ obj'["pvc"].owner = obj["pvc"].owner
            /\ (app # Absent /\ obj["pvc"].owner = app.uid) => app.uid \in doomed',
         \/ obj'["ksvc"] = Absent
         \/ /\ obj["ksvc"] # Absent /\ obj'["ksvc"] # Absent
            /\ obj'["ksvc"].owner = obj["ksvc"].owner /\ obj'["ksvc"].mount = obj["ksvc"].mount,
         seen' = seen, apps' = apps,
         \/ my' = Absent /\ pc' = "idle"
         \/ my' = my /\ (pc' \in Before \/ pc \notin Before \/ ~my.shape.bytecode)
  PROVE  VolumeInv'
<1> USE DEF RecInv, TypeInv, VolumeInv
<1>1. UidsAscend'
  BY DEF UidsAscend, Counted
<1>2. ClaimsAreOld'
  BY DEF ClaimsAreOld
<1>3. SeenClaimExists'
  BY DEF SeenClaimExists, Owns
<1>4. StepTwoLeavesClaim'
  BY DEF StepTwoLeavesClaim, Owns, TypeOK, Steps, Before, Kinds
<1>5. MountedVolumeExists'
  BY DEF MountedVolumeExists
<1>6. GoingIsDoomed'
  BY DEF GoingIsDoomed
<1> QED BY <1>1, <1>2, <1>3, <1>4, <1>5, <1>6

\* One object changes.
LEMMA StoreIsTyped ==
  ASSUME TypeInv, NEW k \in Kinds, NEW new \in Objects[k] \cup {Absent}, Store(k, new),
         UNCHANGED <<app, seen, queued, pc, my, url, apps, images>>,
         doomed' \subseteq 0..MaxApps
  PROVE  /\ TypeInv'
         /\ obj'[k] = new /\ \A x \in Kinds \ {k} : obj'[x] = obj[x]
<1>1. news' \in [Cached -> {"none", "other", "ours"}]
  BY EventIsOne DEF Store, TypeInv
<1>2. /\ obj'[k] = new /\ \A x \in Kinds \ {k} : obj'[x] = obj[x]
      /\ DOMAIN obj' = Kinds
  BY DEF Store, TypeInv, Counted
<1>3. \A x \in Kinds : obj'[x] \in Objects[x] \cup {Absent}
  BY <1>2 DEF TypeInv, TypeOK
<1>4. TypeOK'
  BY <1>1, <1>3 DEF TypeInv, TypeOK
<1>5. Counted'
  BY <1>2 DEF TypeInv, Counted
<1> QED BY <1>2, <1>4, <1>5 DEF TypeInv

\* What others edit leaves the owner and the mount alone.
LEMMA EditsAreTyped ==
  /\ \A o \in Objects["pvc"] :
       LET n == [o EXCEPT !.going = TRUE] IN n \in Objects["pvc"] /\ n.owner = o.owner
  /\ \A o \in Objects["sa"] : [o EXCEPT !.token = TRUE] \in Objects["sa"]
  /\ \A o \in Objects["kafka"] : [o EXCEPT !.sink = FALSE] \in Objects["kafka"]
  /\ \A o \in Objects["ksvc"] :
       /\ LET n == [o EXCEPT !.image = 0] IN
            n \in Objects["ksvc"] /\ n.owner = o.owner /\ n.mount = o.mount
       /\ LET n == [o EXCEPT !.url = TRUE] IN
            n \in Objects["ksvc"] /\ n.owner = o.owner /\ n.mount = o.mount
<1>1. \A o \in [owner : 0..MaxApps, token : BOOLEAN] :
        [o EXCEPT !.token = TRUE] \in [owner : 0..MaxApps, token : BOOLEAN]
  OBVIOUS
<1>2. \A o \in [owner : 0..MaxApps, sink : BOOLEAN] :
        [o EXCEPT !.sink = FALSE] \in [owner : 0..MaxApps, sink : BOOLEAN]
  OBVIOUS
<1>0. \A o \in [owner : 0..MaxApps, size : Nat, going : BOOLEAN] :
        LET n == [o EXCEPT !.going = TRUE] IN
          n \in [owner : 0..MaxApps, size : Nat, going : BOOLEAN] /\ n.owner = o.owner
  OBVIOUS
<1> DEFINE S == [owner : 0..MaxApps, mount : BOOLEAN, preview : BOOLEAN, url : BOOLEAN,
                 image : 0..MaxImages]
<1>3. \A o \in S : LET n == [o EXCEPT !.image = 0] IN
        n \in S /\ n.owner = o.owner /\ n.mount = o.mount
  BY KindsAre
<1>4. \A o \in S : LET n == [o EXCEPT !.url = TRUE] IN
        n \in S /\ n.owner = o.owner /\ n.mount = o.mount
  OBVIOUS
<1>5. Objects["sa"] = [owner : 0..MaxApps, token : BOOLEAN] /\ Objects["ksvc"] = S
      /\ Objects["kafka"] = [owner : 0..MaxApps, sink : BOOLEAN]
      /\ Objects["pvc"] = [owner : 0..MaxApps, size : Nat, going : BOOLEAN]
  BY KindsAre
<1> HIDE DEF S
<1> QED BY <1>0, <1>1, <1>2, <1>3, <1>4, <1>5

LEMMA RouteDoes ==
  ASSUME TypeInv, Route
  PROVE  /\ TypeInv' /\ UNCHANGED <<app, seen, pc, my, apps, doomed>> /\ obj'["pvc"] = obj["pvc"]
         /\ obj["ksvc"] # Absent /\ obj'["ksvc"] # Absent
         /\ obj'["ksvc"].owner = obj["ksvc"].owner /\ obj'["ksvc"].mount = obj["ksvc"].mount
<1> DEFINE new == [obj["ksvc"] EXCEPT !.url = TRUE]
<1>1. obj["ksvc"] # Absent /\ Store("ksvc", new)
      /\ UNCHANGED <<app, seen, queued, pc, my, url, apps, images, doomed>>
      /\ doomed \subseteq 0..MaxApps
  BY DEF Route, bounds, TypeInv, TypeOK
<1>2. obj["ksvc"] \in Objects["ksvc"]
  BY <1>1, KindsAre DEF TypeInv, TypeOK
<1>3. new \in Objects["ksvc"] /\ new.owner = obj["ksvc"].owner /\ new.mount = obj["ksvc"].mount
  BY <1>2, EditsAreTyped
<1>4. new # Absent
  BY <1>3, KindsAre
<1> HIDE DEF new
<1>5. TypeInv' /\ obj'["ksvc"] = new /\ obj'["pvc"] = obj["pvc"]
  BY <1>1, <1>3, KindsAre, StoreIsTyped
<1> QED BY <1>1, <1>3, <1>4, <1>5

LEMMA RouteInv == ASSUME RecInv, Route PROVE VolumeInv'
  BY RouteDoes, ClaimsUntouched DEF RecInv

\* Deleting an object removes it, but for a claim, which goes later.
LEMMA DeletedIs ==
  ASSUME TypeInv, NEW k \in Kinds, obj[k] # Absent
  PROVE  /\ Deleted(k) \in Objects[k] \cup {Absent}
         /\ k # "pvc" => Deleted(k) = Absent
         /\ k = "pvc" => Deleted(k) # Absent /\ Deleted(k).owner = obj[k].owner
<1>1. obj[k] \in Objects[k]
  BY DEF TypeInv, TypeOK
<1>2. CASE k # "pvc"
  BY <1>2 DEF Deleted
<1>3. CASE k = "pvc"
  <2>1. Deleted(k) \in Objects["pvc"] /\ Deleted(k).owner = obj["pvc"].owner
    BY <1>1, <1>3, EditsAreTyped DEF Deleted
  <2> QED BY <1>3, <2>1, KindsAre
<1> QED BY <1>2, <1>3

\* What others delete or edit: a claim is going then, and the history knows; of a
\* Service, no more than the image changes.
LEMMA DriftDoes ==
  ASSUME TypeInv, NEW k \in Kinds, Drift(k)
  PROVE  /\ TypeInv' /\ UNCHANGED <<app, seen, pc, my, apps>> /\ doomed \subseteq doomed'
         /\ \/ obj'["pvc"] = obj["pvc"]
            \/ /\ obj["pvc"] # Absent /\ obj'["pvc"] # Absent
               /\ obj'["pvc"].owner = obj["pvc"].owner /\ obj["pvc"].owner \in doomed'
         /\ \/ obj'["ksvc"] = obj["ksvc"]
            \/ obj'["ksvc"] = Absent
            \/ /\ obj["ksvc"] # Absent /\ obj'["ksvc"] # Absent
               /\ obj'["ksvc"].owner = obj["ksvc"].owner /\ obj'["ksvc"].mount = obj["ksvc"].mount
<1>1. /\ obj[k] # Absent
      /\ UNCHANGED <<app, seen, queued, pc, my, url, apps, images>>
      /\ doomed' = IF k = "pvc" THEN doomed \cup {obj[k].owner} ELSE doomed
  BY DEF Drift
<1>2. obj[k] \in Objects[k]
  BY <1>1 DEF TypeInv, TypeOK
<1>2a. doomed' \subseteq 0..MaxApps
  <2>1. \A o \in Objects["pvc"] : o.owner \in 0..MaxApps
    BY KindsAre
  <2> QED BY <1>1, <1>2, <2>1 DEF TypeInv, TypeOK
<1> DEFINE edited == CASE k = "sa"    -> [obj[k] EXCEPT !.token = TRUE]
                       [] k = "ksvc"  -> [obj[k] EXCEPT !.image = 0]
                       [] k = "kafka" -> [obj[k] EXCEPT !.sink = FALSE]
                       [] OTHER       -> Deleted(k)
<1>2b. \E new \in {Deleted(k), edited} : Store(k, new)
  BY DEF Drift
<1>3. edited \in Objects[k] \cup {Absent} /\ (k = "pvc" => edited = Deleted(k))
  <2>1. CASE k = "sa"
    BY <2>1, <1>2, EditsAreTyped
  <2>2. CASE k = "ksvc"
    BY <2>2, <1>2, EditsAreTyped
  <2>3. CASE k = "kafka"
    BY <2>3, <1>2, EditsAreTyped
  <2>4. CASE k = "pvc"
    BY <2>4, <1>1, DeletedIs
  <2> QED BY <2>1, <2>2, <2>3, <2>4, KindsAre
<1>4. k = "ksvc" => edited.owner = obj[k].owner /\ edited.mount = obj[k].mount
  BY <1>2, EditsAreTyped
<1> HIDE DEF edited
<1>5. PICK new \in {Deleted(k), edited} : Store(k, new)
  BY <1>2b
<1>6. TypeInv' /\ obj'[k] = new /\ \A x \in Kinds \ {k} : obj'[x] = obj[x]
  BY <1>1, <1>2a, <1>3, <1>5, DeletedIs, StoreIsTyped
<1>7. /\ k # "pvc" => obj'["pvc"] = obj["pvc"]
      /\ k # "ksvc" => obj'["ksvc"] = obj["ksvc"]
  BY <1>6, KindsAre
<1>8. CASE k = "pvc"
  BY <1>1, <1>3, <1>5, <1>6, <1>7, <1>8, DeletedIs
<1>9. CASE k # "pvc"
  BY <1>1, <1>4, <1>5, <1>6, <1>7, <1>9, DeletedIs
<1> QED BY <1>8, <1>9

LEMMA DriftInv == ASSUME RecInv, NEW k \in Kinds, Drift(k) PROVE VolumeInv'
<1>1. obj'["ksvc"] = obj["ksvc"] /\ obj["ksvc"] = Absent => obj'["ksvc"] = Absent
  OBVIOUS
<1> QED BY <1>1, DriftDoes, ClaimsUntouched DEF RecInv

LEMMA CollectDoes ==
  ASSUME TypeInv, NEW k \in Kinds, Collect(k)
  PROVE  /\ TypeInv' /\ UNCHANGED <<app, seen, pc, my, apps, doomed>>
         /\ app # Absent => obj[k].owner # app.uid
         /\ obj[k] # Absent /\ obj'[k] = Deleted(k) /\ \A x \in Kinds \ {k} : obj'[x] = obj[x]
<1>1. /\ obj[k] # Absent /\ obj[k].owner \notin {0} \cup {a.uid : a \in {app} \ {Absent}}
      /\ Store(k, Deleted(k))
      /\ UNCHANGED <<app, seen, queued, pc, my, url, apps, images, doomed>>
  BY DEF Collect, bounds
<1>2. doomed' \subseteq 0..MaxApps
  BY <1>1 DEF TypeInv, TypeOK
<1>3. TypeInv' /\ obj'[k] = Deleted(k) /\ \A x \in Kinds \ {k} : obj'[x] = obj[x]
  BY <1>1, <1>2, DeletedIs, StoreIsTyped
<1> QED BY <1>1, <1>3

\* The garbage collector deletes a claim only when its owner is gone.
LEMMA CollectInv == ASSUME RecInv, NEW k \in Kinds, Collect(k) PROVE VolumeInv'
<1>1. /\ TypeInv' /\ UNCHANGED <<app, seen, pc, my, apps, doomed>>
      /\ app # Absent => obj[k].owner # app.uid
      /\ obj[k] # Absent /\ obj'[k] = Deleted(k) /\ \A x \in Kinds \ {k} : obj'[x] = obj[x]
  BY CollectDoes DEF RecInv
<1>2. /\ k # "pvc" => Deleted(k) = Absent
      /\ k = "pvc" => Deleted(k) # Absent /\ Deleted(k).owner = obj[k].owner
  BY <1>1, DeletedIs DEF RecInv
<1>3. /\ k # "pvc" => obj'["pvc"] = obj["pvc"]
      /\ k # "ksvc" => obj'["ksvc"] = obj["ksvc"]
  BY <1>1, KindsAre
<1>4. obj'["ksvc"] = obj["ksvc"] /\ obj["ksvc"] = Absent => obj'["ksvc"] = Absent
  OBVIOUS
<1> QED BY <1>1, <1>2, <1>3, <1>4, ClaimsUntouched

LEMMA FinalizeDoes ==
  ASSUME TypeInv, Finalize
  PROVE  /\ TypeInv' /\ UNCHANGED <<app, seen, pc, my, apps, doomed>>
         /\ obj["pvc"] # Absent /\ obj["pvc"].going
         /\ obj'["pvc"] = Absent /\ obj'["ksvc"] = obj["ksvc"]
<1>1. /\ obj["pvc"] # Absent /\ obj["pvc"].going /\ Store("pvc", Absent)
      /\ UNCHANGED <<app, seen, queued, pc, my, url, apps, images, doomed>>
  BY DEF Finalize, bounds
<1>2. doomed' \subseteq 0..MaxApps
  BY <1>1 DEF TypeInv, TypeOK
<1>3. TypeInv' /\ obj'["pvc"] = Absent /\ \A x \in Kinds \ {"pvc"} : obj'[x] = obj[x]
  BY <1>1, <1>2, KindsAre, StoreIsTyped
<1> QED BY <1>1, <1>3, KindsAre

\* A claim that goes has been going.
LEMMA FinalizeInv == ASSUME RecInv, Finalize PROVE VolumeInv'
<1> USE DEF RecInv, VolumeInv
<1>1. /\ TypeInv' /\ UNCHANGED <<app, seen, pc, my, apps, doomed>>
      /\ obj["pvc"] # Absent /\ obj["pvc"].going
      /\ obj'["pvc"] = Absent /\ obj'["ksvc"] = obj["ksvc"]
  BY FinalizeDoes
<1>2. app # Absent /\ Owns(app.uid) => Owns(app.uid)'
  BY <1>1 DEF Owns, GoingIsDoomed
<1>3. UidsAscend'
  BY <1>1 DEF UidsAscend
<1>4. ClaimsAreOld'
  BY <1>1 DEF ClaimsAreOld
<1>5. GoingIsDoomed'
  BY <1>1 DEF GoingIsDoomed
<1>6. SeenClaimExists'
  BY <1>1, <1>2 DEF SeenClaimExists, Owns
<1>7. StepTwoLeavesClaim'
  BY <1>1, <1>2 DEF StepTwoLeavesClaim, Owns
<1>8. MountedVolumeExists'
  BY <1>1, <1>2 DEF MountedVolumeExists, Owns
<1> QED BY <1>3, <1>4, <1>5, <1>6, <1>7, <1>8

LEMMA RefuseDoes ==
  ASSUME TypeInv, Refuse
  PROVE  TypeInv' /\ UNCHANGED <<app, obj, seen, apps, doomed>> /\ pc' = "idle" /\ my' = Absent
<1>1. /\ UNCHANGED <<app, obj, seen, news, apps, images, doomed>>
      /\ pc' = "idle" /\ my' = Absent /\ url' = FALSE /\ queued' = TRUE
  BY DEF Refuse, Error, Return
<1>2. TypeInv'
  BY <1>1 DEF TypeInv, TypeOK, Counted, Steps
<1> QED BY <1>1, <1>2

LEMMA RefuseInv == ASSUME RecInv, Refuse PROVE VolumeInv'
  BY RefuseDoes, ClaimsUntouched DEF RecInv

LEMMA DeleteAppDoes ==
  ASSUME TypeInv, DeleteApp
  PROVE  TypeInv' /\ app' = Absent /\ UNCHANGED <<obj, seen, pc, my, apps, doomed>>
<1>1. app' = Absent /\ AppEvent /\ UNCHANGED <<obj, seen, queued, pc, my, url, apps, images, doomed>>
  BY DEF DeleteApp, bounds
<1>2. TypeInv'
  BY <1>1, EventIsOne DEF TypeInv, TypeOK, Counted, AppEvent
<1> QED BY <1>1, <1>2

LEMMA DeleteAppInv == ASSUME RecInv, DeleteApp PROVE VolumeInv'
  BY DeleteAppDoes, ClaimsUntouched DEF RecInv

\* An edit of the NextApp or of its status leaves its uid alone.
LEMMA AppEdits ==
  ASSUME NEW a \in App
  PROVE  /\ [a EXCEPT !.url = TRUE] \in App /\ [a EXCEPT !.url = TRUE].uid = a.uid
         /\ \A s \in Shapes, i \in 1..MaxImages :
              LET n == [a EXCEPT !.image = i, !.shape = s] IN n \in App /\ n.uid = a.uid
  BY DEF App

LEMMA StatusDoes ==
  ASSUME TypeInv, Status
  PROVE  /\ TypeInv' /\ UNCHANGED <<obj, seen, apps, doomed>> /\ pc' = "idle" /\ my' = Absent
         /\ app' = Absent \/ (app # Absent /\ app' # Absent /\ app'.uid = app.uid)
<1>1. UNCHANGED <<obj, seen, apps, images, doomed>> /\ (AppEvent \/ UNCHANGED news)
  BY DEF Status, bounds
<1>2. pc' = "idle" /\ my' = Absent /\ url' = FALSE /\ (queued' = TRUE \/ UNCHANGED queued)
  BY DEF Status, Return, Error
<1>3. app' \in App \cup {Absent}
      /\ (app' = Absent \/ (app # Absent /\ app' # Absent /\ app'.uid = app.uid))
  <2>1. CASE app' = app
    BY <2>1 DEF TypeInv, TypeOK
  <2>2. CASE pc = "status" /\ app = my /\ app' = [my EXCEPT !.url = TRUE]
    <3>1. app \in App
      BY <2>2 DEF TypeInv, TypeOK
    <3> QED BY <2>2, <3>1, AppEdits, AbsentAssumption
  <2> QED BY <2>1, <2>2 DEF Status
<1>4. TypeInv'
  BY <1>1, <1>2, <1>3, EventIsOne DEF TypeInv, TypeOK, Counted, AppEvent, Steps
<1> QED BY <1>1, <1>2, <1>3, <1>4

LEMMA StatusInv == ASSUME RecInv, Status PROVE VolumeInv'
  BY StatusDoes, ClaimsUntouched DEF RecInv

----------------------------------------------------------------------------
(* Steps by which someone learns of, or makes, another NextApp *)

LEMMA StartDoes ==
  ASSUME TypeInv, Start
  PROVE  /\ TypeInv' /\ UNCHANGED <<app, obj, seen, apps, doomed>>
         /\ my' = seen["app"] /\ pc' \in {"idle", "sa"}
         /\ seen["app"] # Absent => seen["app"].uid \in Nat
<1>1. /\ pc = "idle" /\ my' = seen["app"] /\ queued' = FALSE
      /\ pc' = IF seen["app"] = Absent THEN "idle" ELSE "sa"
      /\ UNCHANGED <<app, obj, seen, news, url, apps, images, doomed>>
  BY DEF Start, bounds
<1>2. seen["app"] \in App \cup {Absent}
  BY KindsAre DEF TypeInv, TypeOK
<1>3. TypeInv'
  BY <1>1, <1>2 DEF TypeInv, TypeOK, Counted, Steps, Kinds
<1>4. seen["app"] # Absent => seen["app"].uid \in Nat
  BY <1>2, KindsAre DEF App
<1> QED BY <1>1, <1>3, <1>4

LEMMA StartInv == ASSUME RecInv, Start PROVE VolumeInv'
<1> USE DEF RecInv, VolumeInv
<1>1. /\ UNCHANGED <<app, obj, seen, apps, doomed>>
      /\ my' = seen["app"] /\ pc' \in {"idle", "sa"}
      /\ seen["app"] # Absent => seen["app"].uid \in Nat
  BY StartDoes
<1>2. UidsAscend'
  BY <1>1 DEF UidsAscend
<1>3. ClaimsAreOld'
  BY <1>1 DEF ClaimsAreOld
<1>4. SeenClaimExists'
  BY <1>1 DEF SeenClaimExists, Owns
<1>5. StepTwoLeavesClaim'
  BY <1>1 DEF StepTwoLeavesClaim
<1>6. MountedVolumeExists'
  BY <1>1 DEF MountedVolumeExists
<1>7. GoingIsDoomed'
  BY <1>1 DEF GoingIsDoomed
<1> QED BY <1>2, <1>3, <1>4, <1>5, <1>6, <1>7

\* The informer learns of one object, or, at a restart, of all of them.
LEMMA InformerCatchesUp ==
  ASSUME RecInv, TypeInv', UNCHANGED <<app, obj, apps, doomed>>,
         seen'["app"] \in {seen["app"], app}, seen'["pvc"] \in {seen["pvc"], obj["pvc"]},
         UNCHANGED <<pc, my>> \/ (pc' = "idle" /\ my' = Absent)
  PROVE  VolumeInv'
<1> USE DEF RecInv, TypeInv, VolumeInv
<1>1. \A a \in {app, my, seen["app"]} \ {Absent} : a.uid \in Nat
  BY OwnersAreNat
<1>2. \A o \in {obj["pvc"], seen["pvc"]} \ {Absent} : o.owner \in Nat
  BY OwnersAreNat
<1>3. apps \in Nat
  BY KindsAre DEF Counted
<1>4. UidsAscend'
  BY <1>1, <1>3 DEF UidsAscend
<1>5. ClaimsAreOld'
  BY <1>1, <1>2, <1>3 DEF ClaimsAreOld, UidsAscend
<1>6. SeenClaimExists'
  BY DEF SeenClaimExists, Owns
<1>7. StepTwoLeavesClaim'
  BY DEF StepTwoLeavesClaim, Owns
<1>8. MountedVolumeExists'
  BY DEF MountedVolumeExists
<1>9. GoingIsDoomed'
  BY DEF GoingIsDoomed
<1> QED BY <1>4, <1>5, <1>6, <1>7, <1>8, <1>9

LEMMA DeliverDoes ==
  ASSUME TypeInv, NEW k \in Cached, Deliver(k)
  PROVE  /\ TypeInv' /\ UNCHANGED <<app, obj, pc, my, apps, doomed>>
         /\ seen'["app"] \in {seen["app"], app} /\ seen'["pvc"] \in {seen["pvc"], obj["pvc"]}
<1> DEFINE new == IF k = "app" THEN app ELSE obj[k]
<1>1. /\ seen' = [seen EXCEPT ![k] = new] /\ news' = [news EXCEPT ![k] = "none"]
      /\ queued' = (queued \/ (news[k] = "ours" /\ k \in {"app"} \cup Owned))
      /\ UNCHANGED <<app, obj, pc, my, url, apps, images, doomed>>
  BY DEF Deliver, bounds
<1>2. new \in (IF k = "app" THEN App ELSE Objects[k]) \cup {Absent}
  BY KindsAre DEF TypeInv, TypeOK
<1>3. DOMAIN seen' = Cached /\ \A x \in Cached : seen'[x] = IF x = k THEN new ELSE seen[x]
  BY <1>1 DEF TypeInv, Counted
<1> HIDE DEF new
<1>4. \A x \in Cached : seen'[x] \in (IF x = "app" THEN App ELSE Objects[x]) \cup {Absent}
  BY <1>2, <1>3 DEF TypeInv, TypeOK
<1>5. news' \in [Cached -> {"none", "other", "ours"}] /\ queued' \in BOOLEAN
  BY <1>1 DEF TypeInv, TypeOK
<1>6. TypeOK'
  BY <1>1, <1>4, <1>5 DEF TypeInv, TypeOK
<1>7. Counted'
  BY <1>1, <1>3 DEF TypeInv, Counted
<1>8. seen'["app"] \in {seen["app"], app} /\ seen'["pvc"] \in {seen["pvc"], obj["pvc"]}
  BY <1>3, KindsAre DEF new
<1> QED BY <1>1, <1>6, <1>7, <1>8 DEF TypeInv

LEMMA DeliverInv == ASSUME RecInv, NEW k \in Cached, Deliver(k) PROVE VolumeInv'
  BY DeliverDoes, InformerCatchesUp DEF RecInv

LEMMA RestartDoes ==
  ASSUME TypeInv, Restart
  PROVE  /\ TypeInv' /\ UNCHANGED <<app, obj, apps, doomed>> /\ pc' = "idle" /\ my' = Absent
         /\ seen'["app"] = app /\ seen'["pvc"] = obj["pvc"]
<1>1. /\ pc' = "idle" /\ my' = Absent /\ url' = FALSE /\ queued' = (app # Absent)
      /\ seen' = [k \in Cached |-> IF k = "app" THEN app ELSE obj[k]]
      /\ news' = [k \in Cached |-> "none"]
      /\ UNCHANGED <<app, obj, apps, images, doomed>>
  BY DEF Restart, Return
<1>2. \A x \in Cached : seen'[x] \in (IF x = "app" THEN App ELSE Objects[x]) \cup {Absent}
  BY <1>1, KindsAre DEF TypeInv, TypeOK
<1>3. TypeOK'
  BY <1>1, <1>2 DEF TypeInv, TypeOK, Steps
<1>4. Counted'
  BY <1>1 DEF TypeInv, Counted
<1>5. seen'["app"] = app /\ seen'["pvc"] = obj["pvc"]
  BY <1>1, KindsAre
<1> QED BY <1>1, <1>3, <1>4, <1>5 DEF TypeInv

LEMMA RestartInv == ASSUME RecInv, Restart PROVE VolumeInv'
  BY RestartDoes, InformerCatchesUp DEF RecInv

\* A NextApp is edited, or one with a new uid made.
LEMMA ApplyDoes ==
  ASSUME TypeInv, NEW s \in Shapes, Apply(s)
  PROVE  /\ TypeInv' /\ UNCHANGED <<obj, seen, pc, my, doomed>> /\ app' # Absent
         /\ \/ app # Absent /\ app'.uid = app.uid /\ apps' = apps
            \/ app = Absent /\ apps \in Nat /\ apps' = apps + 1 /\ app'.uid = apps + 1
<1>1. /\ images < MaxImages /\ images' = images + 1 /\ AppEvent
      /\ UNCHANGED <<obj, seen, queued, pc, my, url, doomed>>
  BY DEF Apply
<1>2. images' \in 1..MaxImages /\ images + 1 \in 1..MaxImages
  BY <1>1, KindsAre DEF TypeInv, Counted
<1>3. news' \in [Cached -> {"none", "other", "ours"}]
  BY <1>1, EventIsOne DEF AppEvent, TypeInv
<1>4. CASE app # Absent /\ app' = [app EXCEPT !.image = images + 1, !.shape = s] /\ apps' = apps
  <2>1. app \in App
    BY <1>4 DEF TypeInv, TypeOK
  <2>2. app' \in App /\ app'.uid = app.uid
    BY <1>2, <1>4, <2>1, AppEdits
  <2>3. TypeOK'
    BY <1>1, <1>3, <2>2 DEF TypeInv, TypeOK
  <2>4. Counted'
    BY <1>1, <1>2, <1>4, KindsAre DEF TypeInv, Counted
  <2> QED BY <1>1, <1>4, <2>2, <2>3, <2>4, AbsentAssumption DEF TypeInv
<1>5. CASE /\ app = Absent /\ apps < MaxApps /\ apps' = apps + 1
           /\ app' = [uid |-> apps + 1, image |-> images + 1, shape |-> s, url |-> FALSE]
  <2>1. apps \in Nat /\ apps' \in 1..MaxApps /\ apps' = apps + 1
    BY <1>5, KindsAre DEF TypeInv, Counted
  <2>2. apps + 1 \in 1..MaxApps
    BY <2>1
  <2>3. app' \in App /\ app'.uid = apps + 1
    BY <1>2, <1>5, <2>2 DEF App
  <2>4. TypeOK'
    BY <1>1, <1>3, <2>3 DEF TypeInv, TypeOK
  <2>5. Counted'
    BY <1>1, <1>2, <2>1 DEF TypeInv, Counted
  <2> QED BY <1>1, <1>5, <2>1, <2>3, <2>4, <2>5, AbsentAssumption DEF TypeInv
<1> QED BY <1>4, <1>5 DEF Apply

\* A new NextApp's uid is larger than any owner there is.
LEMMA ApplyInv == ASSUME RecInv, NEW s \in Shapes, Apply(s) PROVE VolumeInv'
<1>1. /\ TypeInv' /\ UNCHANGED <<obj, seen, pc, my, doomed>> /\ app' # Absent
      /\ \/ app # Absent /\ app'.uid = app.uid /\ apps' = apps
         \/ app = Absent /\ apps \in Nat /\ apps' = apps + 1 /\ app'.uid = apps + 1
  BY ApplyDoes DEF RecInv
<1>2. CASE app # Absent /\ app'.uid = app.uid /\ apps' = apps
  <2>1. obj'["pvc"] = obj["pvc"] /\ obj'["ksvc"] = obj["ksvc"]
    BY <1>1
  <2> QED BY <1>1, <1>2, <2>1, ClaimsUntouched
<1>3. CASE app = Absent /\ apps \in Nat /\ apps' = apps + 1 /\ app'.uid = apps + 1
  <2> USE DEF RecInv, TypeInv, VolumeInv
  <2>5. \A a \in {my, seen["app"]} \ {Absent} : a.uid \in Nat
    BY OwnersAreNat
  <2>6. /\ \A o \in {obj["pvc"], seen["pvc"]} \ {Absent} : o.owner \in Nat
        /\ obj["ksvc"] # Absent => obj["ksvc"].owner \in Nat
    BY OwnersAreNat
  <2>7. UidsAscend'
    BY <1>1, <1>3, <2>5 DEF UidsAscend
  <2>8. ClaimsAreOld'
    BY <1>1, <1>3, <2>6 DEF ClaimsAreOld
  <2>9. SeenClaimExists'
    BY <1>1, <1>3, <2>6 DEF SeenClaimExists, ClaimsAreOld
  <2>10. StepTwoLeavesClaim'
    BY <1>1, <1>3, <2>5 DEF StepTwoLeavesClaim, UidsAscend, TypeOK, Steps, Kinds
  <2>11. MountedVolumeExists'
    BY <1>1, <1>3, <2>6 DEF MountedVolumeExists, ClaimsAreOld
  <2>12. GoingIsDoomed'
    BY <1>1, <1>3, <2>6 DEF GoingIsDoomed, ClaimsAreOld
  <2> QED BY <2>7, <2>8, <2>9, <2>10, <2>11, <2>12
<1> QED BY <1>1, <1>2, <1>3

----------------------------------------------------------------------------
(* The four steps that create or update an object *)

LEMMA InHandIsTyped ==
  ASSUME TypeInv, pc # "idle"
  PROVE  /\ my \in App /\ my # Absent
         /\ my.uid \in 0..MaxApps /\ my.image \in 0..MaxImages
         /\ my.shape.bytecode \in BOOLEAN /\ my.shape.preview \in BOOLEAN
         /\ my.shape.size \in Nat
<1>1. my \in App /\ my # Absent
  BY DEF TypeInv, TypeOK
<1>2. my.uid \in 1..MaxApps /\ my.image \in 1..MaxImages /\ my.shape \in Shape
  BY <1>1, ShapesAssumption DEF App
<1>3. my.uid \in 0..MaxApps /\ my.image \in 0..MaxImages
  BY <1>2, KindsAre
<1> QED BY <1>1, <1>2, <1>3 DEF Shape

LEMMA ServiceAccountDoes ==
  ASSUME TypeInv, ServiceAccount
  PROVE  /\ TypeInv' /\ UNCHANGED <<app, seen, apps, doomed>>
         /\ obj'["pvc"] = obj["pvc"] /\ obj'["ksvc"] = obj["ksvc"]
         /\ \/ pc' = "idle" /\ my' = Absent
            \/ pc' = AfterSa /\ my' = my
<1> DEFINE new == [owner |-> my.uid, token |-> FALSE]
<1>0. UNCHANGED doomed /\ doomed' \subseteq 0..MaxApps
  BY DEF ServiceAccount, TypeInv, TypeOK
<1>1. CreateOrUpdate("sa", new, AfterSa, url) /\ pc = "sa"
  BY DEF ServiceAccount, CreateOrUpdate
<1>2. new \in Objects["sa"] /\ AfterSa \in Steps \ {"idle"} /\ url \in BOOLEAN
  BY <1>1, InHandIsTyped, KindsAre DEF AfterSa, Steps, Kinds, TypeInv, TypeOK
<1> HIDE DEF new
<1>k. "sa" \in Kinds
  BY KindsAre
<1>3. /\ UNCHANGED <<app, seen, apps, images>> /\ TypeInv'
      /\ obj' = obj \/ obj' = [obj EXCEPT !["sa"] = new]
      /\ \/ pc' = "idle" /\ my' = Absent
         \/ pc' = AfterSa /\ my' = my
  BY <1>0, <1>1, <1>2, <1>k, CreateOrUpdateDoes
<1>d. DOMAIN obj = Kinds
  BY DEF TypeInv, Counted
<1>4. obj'["pvc"] = obj["pvc"] /\ obj'["ksvc"] = obj["ksvc"]
  BY <1>3, <1>d, KindsAre
<1> QED BY <1>0, <1>3, <1>4

LEMMA ServiceAccountInv == ASSUME RecInv, ServiceAccount PROVE VolumeInv'
<1>1. AfterSa \in Before \/ ~my.shape.bytecode
  BY DEF AfterSa, Before
<1> QED BY <1>1, ServiceAccountDoes, ClaimsUntouched DEF RecInv

LEMMA KafkaSourceDoes ==
  ASSUME TypeInv, KafkaSource
  PROVE  /\ TypeInv' /\ UNCHANGED <<app, seen, apps, doomed>> /\ pc = "kafka"
         /\ obj'["pvc"] = obj["pvc"] /\ obj'["ksvc"] = obj["ksvc"]
         /\ \/ pc' = "idle" /\ my' = Absent
            \/ pc' = "status" /\ my' = my
<1> DEFINE new == [owner |-> my.uid, sink |-> TRUE]
<1>0. UNCHANGED doomed /\ doomed' \subseteq 0..MaxApps
  BY DEF KafkaSource, TypeInv, TypeOK
<1>1. CreateOrUpdate("kafka", new, "status", url) /\ pc = "kafka"
  BY DEF KafkaSource, CreateOrUpdate
<1>2. new \in Objects["kafka"] /\ "status" \in Steps \ {"idle"} /\ url \in BOOLEAN
  BY <1>1, InHandIsTyped, KindsAre DEF Steps, TypeInv, TypeOK
<1> HIDE DEF new
<1>k. "kafka" \in Kinds
  BY KindsAre
<1>3. /\ UNCHANGED <<app, seen, apps, images>> /\ TypeInv'
      /\ obj' = obj \/ obj' = [obj EXCEPT !["kafka"] = new]
      /\ \/ pc' = "idle" /\ my' = Absent
         \/ pc' = "status" /\ my' = my
  BY <1>0, <1>1, <1>2, <1>k, CreateOrUpdateDoes
<1>d. DOMAIN obj = Kinds
  BY DEF TypeInv, Counted
<1>4. obj'["pvc"] = obj["pvc"] /\ obj'["ksvc"] = obj["ksvc"]
  BY <1>3, <1>d, KindsAre
<1> QED BY <1>0, <1>1, <1>3, <1>4

LEMMA KafkaSourceInv == ASSUME RecInv, KafkaSource PROVE VolumeInv'
  BY KafkaSourceDoes, ClaimsUntouched DEF Before, RecInv

\* What step 2 would write.
NewClaim == ClaimOf(seen["pvc"])

LEMMA ClaimDoes ==
  ASSUME TypeInv, Claim
  PROVE  /\ TypeInv' /\ UNCHANGED <<app, seen, apps>> /\ my # Absent
         /\ NewClaim # Absent /\ NewClaim.owner = my.uid /\ obj'["ksvc"] = obj["ksvc"]
         /\ \/ pc' = "idle" /\ my' = Absent
            \/ /\ pc' = "ksvc" /\ my' = my
               /\ obj'["pvc"] = NewClaim \/ (obj' = obj /\ seen["pvc"] = NewClaim)
         /\ \/ obj'["pvc"] = obj["pvc"] /\ doomed' = doomed
            \/ /\ obj'["pvc"] = NewClaim
               /\ doomed' = IF NewClaim.going THEN doomed \cup {my.uid} ELSE doomed \ {my.uid}
<1>1. /\ CreateOrUpdate("pvc", NewClaim, "ksvc", url) /\ pc = "pvc"
      /\ doomed' = IF obj' = obj THEN doomed
                   ELSE IF NewClaim.going THEN doomed \cup {my.uid} ELSE doomed \ {my.uid}
  BY DEF Claim, CreateOrUpdate, NewClaim
<1>2. /\ NewClaim \in Objects["pvc"] /\ NewClaim.owner = my.uid
      /\ "ksvc" \in Steps \ {"idle"} /\ url \in BOOLEAN
  <2>1. seen["pvc"] \in Objects["pvc"] \cup {Absent}
    BY KindsAre DEF TypeInv, TypeOK
  <2>2. seen["pvc"] # Absent => seen["pvc"].going \in BOOLEAN
    BY <2>1, KindsAre
  <2> QED BY <1>1, <2>2, InHandIsTyped, KindsAre DEF Steps, TypeInv, TypeOK, NewClaim, ClaimOf
<1>3. /\ NewClaim # Absent /\ Existing("pvc") = seen["pvc"]
      /\ my # Absent /\ my.uid \in 0..MaxApps
  BY <1>1, <1>2, InHandIsTyped, KindsAre DEF Existing
<1>k. "pvc" \in Kinds
  BY KindsAre
<1>4. doomed' \subseteq 0..MaxApps
  BY <1>1, <1>3 DEF TypeInv, TypeOK
<1>5. /\ UNCHANGED <<app, seen, apps, images>> /\ TypeInv'
      /\ obj' = obj \/ obj' = [obj EXCEPT !["pvc"] = NewClaim]
      /\ \/ pc' = "idle" /\ my' = Absent
         \/ /\ pc' = "ksvc" /\ my' = my
            /\ seen["pvc"] = NewClaim \/ obj' = [obj EXCEPT !["pvc"] = NewClaim]
  BY <1>1, <1>2, <1>3, <1>4, <1>k, CreateOrUpdateDoes
<1>6. DOMAIN obj = Kinds
  BY DEF TypeInv, Counted
<1>7. /\ obj'["ksvc"] = obj["ksvc"]
      /\ obj' = obj \/ obj'["pvc"] = NewClaim
      /\ obj' = [obj EXCEPT !["pvc"] = NewClaim] => obj'["pvc"] = NewClaim
  BY <1>5, <1>6, KindsAre
<1> QED BY <1>1, <1>2, <1>3, <1>5, <1>7

\* Step 2 takes a claim over from an older NextApp only.
LEMMA ClaimInv == ASSUME RecInv, Claim PROVE VolumeInv'
<1>1. /\ UNCHANGED <<app, seen, apps>> /\ my # Absent
      /\ NewClaim # Absent /\ NewClaim.owner = my.uid /\ obj'["ksvc"] = obj["ksvc"]
      /\ \/ pc' = "idle" /\ my' = Absent
         \/ /\ pc' = "ksvc" /\ my' = my
            /\ obj'["pvc"] = NewClaim \/ (obj' = obj /\ seen["pvc"] = NewClaim)
      /\ \/ obj'["pvc"] = obj["pvc"] /\ doomed' = doomed
         \/ /\ obj'["pvc"] = NewClaim
            /\ doomed' = IF NewClaim.going THEN doomed \cup {my.uid} ELSE doomed \ {my.uid}
  BY ClaimDoes DEF RecInv
<1> USE DEF RecInv, TypeInv, VolumeInv
<1>7. /\ my.uid \in Nat /\ apps \in Nat /\ (app # Absent => app.uid \in Nat)
      /\ \A o \in {obj["pvc"], seen["pvc"]} \ {Absent} : o.owner \in Nat
  BY <1>1, OwnersAreNat, KindsAre DEF Counted
<1>8. UidsAscend'
  BY <1>1 DEF UidsAscend
<1>9. ClaimsAreOld'
  BY <1>1, <1>7 DEF ClaimsAreOld, UidsAscend
<1>9a. app # Absent /\ my.uid = app.uid /\ obj'["pvc"] = NewClaim => Owns(app.uid)'
  BY <1>1 DEF Owns
<1>10. app # Absent /\ Owns(app.uid) => Owns(app.uid)'
  <2>1. CASE obj'["pvc"] = obj["pvc"] /\ doomed' = doomed
    BY <2>1, <1>1 DEF Owns
  <2>2. CASE /\ obj'["pvc"] = NewClaim
             /\ doomed' = IF NewClaim.going THEN doomed \cup {my.uid} ELSE doomed \ {my.uid}
    <3>1. CASE app # Absent /\ my.uid = app.uid
      BY <2>2, <3>1, <1>1, <1>9a
    <3>2. CASE app # Absent /\ my.uid # app.uid
      BY <2>2, <3>2, <1>1, <1>7 DEF Owns, ClaimsAreOld, UidsAscend
    <3> QED BY <3>1, <3>2
  <2> QED BY <1>1, <2>1, <2>2
<1>11. SeenClaimExists'
  BY <1>1, <1>10 DEF SeenClaimExists
<1>12. StepTwoLeavesClaim'
  BY <1>1, <1>9a, <1>10 DEF StepTwoLeavesClaim, SeenClaimExists
<1>13. MountedVolumeExists'
  BY <1>1, <1>10 DEF MountedVolumeExists, Owns
<1>14. GoingIsDoomed'
  BY <1>1 DEF GoingIsDoomed
<1> QED BY <1>8, <1>9, <1>11, <1>12, <1>13, <1>14

\* What step 3 would write.
NewService == ServiceOf(seen["ksvc"])

LEMMA ServiceDoes ==
  ASSUME TypeInv, Service
  PROVE  /\ TypeInv' /\ UNCHANGED <<app, seen, apps, doomed>> /\ pc = "ksvc" /\ my # Absent
         /\ NewService # Absent /\ NewService.owner = my.uid
         /\ NewService.mount = my.shape.bytecode
         /\ obj'["pvc"] = obj["pvc"] /\ obj'["ksvc"] \in {obj["ksvc"], NewService}
         /\ \/ pc' = "idle" /\ my' = Absent
            \/ pc' = AfterKsvc /\ my' = my /\ AfterKsvc \in {"kafka", "status"}
<1>0. UNCHANGED doomed /\ doomed' \subseteq 0..MaxApps
  BY DEF Service, TypeInv, TypeOK
<1>1. CreateOrUpdate("ksvc", NewService, AfterKsvc, NewService.url) /\ pc = "ksvc"
  BY DEF Service, CreateOrUpdate, NewService
<1>2. /\ NewService \in Objects["ksvc"] /\ NewService.owner = my.uid
      /\ NewService.mount = my.shape.bytecode /\ NewService.url \in BOOLEAN
  <2>1. seen["ksvc"] \in Objects["ksvc"] \cup {Absent}
    BY KindsAre DEF TypeInv, TypeOK
  <2>2. seen["ksvc"] # Absent => seen["ksvc"].preview \in BOOLEAN /\ seen["ksvc"].url \in BOOLEAN
    BY <2>1, KindsAre
  <2> QED BY <1>1, <2>2, InHandIsTyped, KindsAre DEF ServiceOf, NewService
<1>3. NewService # Absent /\ my # Absent /\ AfterKsvc \in {"kafka", "status"}
      /\ AfterKsvc \in Steps \ {"idle"}
  BY <1>1, <1>2, InHandIsTyped, KindsAre DEF AfterKsvc, Steps
<1>k. "ksvc" \in Kinds
  BY KindsAre
<1>4. /\ UNCHANGED <<app, seen, apps, images>> /\ TypeInv'
      /\ obj' = obj \/ obj' = [obj EXCEPT !["ksvc"] = NewService]
      /\ \/ pc' = "idle" /\ my' = Absent
         \/ pc' = AfterKsvc /\ my' = my
  BY <1>0, <1>1, <1>2, <1>3, <1>k, CreateOrUpdateDoes
<1>5. DOMAIN obj = Kinds
  BY DEF TypeInv, Counted
<1>6. /\ obj'["pvc"] = obj["pvc"]
      /\ obj'["ksvc"] = obj["ksvc"] \/ obj'["ksvc"] = NewService
  BY <1>4, <1>5, KindsAre
<1> QED BY <1>0, <1>1, <1>2, <1>3, <1>4, <1>6

\* Step 3 mounts the claim that step 2 has left.
LEMMA ServiceInv == ASSUME RecInv, Service PROVE VolumeInv'
<1>1. /\ UNCHANGED <<app, seen, apps, doomed>> /\ pc = "ksvc" /\ my # Absent
      /\ NewService # Absent /\ NewService.owner = my.uid
      /\ NewService.mount = my.shape.bytecode
      /\ obj'["pvc"] = obj["pvc"] /\ obj'["ksvc"] \in {obj["ksvc"], NewService}
      /\ \/ pc' = "idle" /\ my' = Absent
         \/ pc' \in {"kafka", "status"} /\ my' = my
  BY ServiceDoes DEF RecInv
<1> USE DEF RecInv, TypeInv, VolumeInv
<1>2. UidsAscend'
  BY <1>1 DEF UidsAscend
<1>3. ClaimsAreOld'
  BY <1>1 DEF ClaimsAreOld, UidsAscend
<1>4. SeenClaimExists'
  BY <1>1 DEF SeenClaimExists, Owns
<1>5. StepTwoLeavesClaim'
  BY <1>1 DEF StepTwoLeavesClaim, Owns
<1>6. MountedVolumeExists'
  BY <1>1 DEF MountedVolumeExists, StepTwoLeavesClaim, Owns
<1>7. GoingIsDoomed'
  BY <1>1 DEF GoingIsDoomed
<1> QED BY <1>2, <1>3, <1>4, <1>5, <1>6, <1>7

----------------------------------------------------------------------------
(* Every step *)

LEMMA TypeNext == TypeInv /\ [Next]_vars => TypeInv'
<1> SUFFICES ASSUME TypeInv, [Next]_vars PROVE TypeInv'
  OBVIOUS
<1>1. CASE Reconcile
  BY <1>1, StartDoes, ServiceAccountDoes, ClaimDoes, ServiceDoes, KafkaSourceDoes, StatusDoes
     DEF Reconcile
<1>2. CASE Refuse \/ Restart \/ DeleteApp \/ Finalize \/ Route
  BY <1>2, RefuseDoes, RestartDoes, DeleteAppDoes, FinalizeDoes, RouteDoes
<1>3. CASE \E k \in Cached : Deliver(k)
  BY <1>3, DeliverDoes
<1>4. CASE \E s \in Shapes : Apply(s)
  BY <1>4, ApplyDoes
<1>5. CASE \E k \in Kinds : Collect(k) \/ Drift(k)
  BY <1>5, CollectDoes, DriftDoes
<1>6. CASE UNCHANGED vars
  BY <1>6 DEF TypeInv, TypeOK, Counted, vars, bounds
<1> QED BY <1>1, <1>2, <1>3, <1>4, <1>5, <1>6 DEF Next

LEMMA VolumeNext == ASSUME RecInv, [Next]_vars PROVE VolumeInv'
<1>1. CASE Reconcile
  BY <1>1, StartInv, ServiceAccountInv, ClaimInv, ServiceInv, KafkaSourceInv, StatusInv DEF Reconcile
<1>2. CASE Refuse \/ Restart \/ DeleteApp \/ Finalize \/ Route
  BY <1>2, RefuseInv, RestartInv, DeleteAppInv, FinalizeInv, RouteInv
<1>3. CASE \E k \in Cached : Deliver(k)
  BY <1>3, DeliverInv
<1>4. CASE \E s \in Shapes : Apply(s)
  BY <1>4, ApplyInv
<1>5. CASE \E k \in Kinds : Collect(k) \/ Drift(k)
  BY <1>5, CollectInv, DriftInv
<1>6. CASE UNCHANGED vars
  BY <1>6 DEF RecInv, VolumeInv, UidsAscend, ClaimsAreOld, GoingIsDoomed, SeenClaimExists,
     StepTwoLeavesClaim, MountedVolumeExists, Owns, vars, bounds
<1> QED BY <1>1, <1>2, <1>3, <1>4, <1>5, <1>6 DEF Next

\* Every object, in the API server and in the informer's cache, is of its kind,
\* and Reconcile holds a NextApp exactly while it is at work, whatever fails and
\* whoever edits what (nextapp_controller.go).
THEOREM ReconcilerTypes == Spec => []TypeOK
<1>1. TypeInv => TypeOK
  BY DEF TypeInv
<1>2. Init => TypeInv
  BY InitInv DEF RecInv
<1> QED BY <1>1, <1>2, TypeNext, PTL DEF Spec

\* Whatever the applications, failures, restarts and edits: the Knative Service
\* of a NextApp mounts no claim that is missing or that the garbage collector will
\* still delete, but for one that was going when it was taken over, or that others
\* have deleted since and that has not been made anew (nextapp_controller.go).
THEOREM MountedVolumesExist == Spec => []MountedVolumeExists
<1>1. RecInv => MountedVolumeExists
  BY DEF RecInv, VolumeInv
<1>2. RecInv /\ [Next]_vars => RecInv'
  BY TypeNext, VolumeNext DEF RecInv
<1> QED BY <1>1, <1>2, InitInv, PTL DEF Spec
=============================================================================
