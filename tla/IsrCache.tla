------------------------------ MODULE IsrCache ------------------------------
(***************************************************************************)
(* The OpenNext ISR cache of kn-next: the incremental cache of             *)
(* adapters/redis-cache.ts and the tag cache of                            *)
(* adapters/redis-tag-cache.ts, as the handlers running on several pods    *)
(* use them over one shared Redis.                                         *)
(*                                                                         *)
(* A Redis command is one step.  A pipeline is one step per command: Redis *)
(* runs the commands of one connection in order and may run those of       *)
(* another connection between them.  What a handler does between two       *)
(* awaits belongs to the step before it.                                   *)
(*                                                                         *)
(* The order in which the two caches are called (look an entry up, ask the *)
(* tag cache, render, store, register tags) is OpenNext's, not the         *)
(* repository's; PROJECT.json marks those definitions external.            *)
(***************************************************************************)
EXTENDS Integers, FiniteSets

CONSTANTS
    Calls,             \* handler invocations running at the same time, on any pod
    Builds,            \* the NEXT_BUILD_ID values of the revisions that run
    BuildOf,           \* the build of the pod a call runs on
    Pages,             \* cache keys (paths)
    Tags,              \* cache tags
    TagsOf,            \* the tags that a page's render derives
    NoEntry,           \* an absent cache entry
    MaxClock,          \* bound: the last value of Date.now()
    MaxRevalidations,  \* bound: revalidateTag calls per tag
    Failing,           \* the stages whose Redis command may fail
    Dying              \* the stages at which the pod may die, or the call throw

ASSUME NonEmptyAssumption == Pages # {} /\ Tags # {}
ASSUME BuildOfAssumption  == BuildOf \in [Calls -> Builds]
ASSUME TagsOfAssumption   == TagsOf \in [Pages -> SUBSET Tags]
ASSUME BoundsAssumption   == MaxClock \in Nat \ {0} /\ MaxRevalidations \in Nat

Keys   == Builds \X Pages
Inputs == [tag : Tags, page : Pages]

\* seen[t]: how many revalidations of t had been asked for when the entry's
\* content was rendered; the content reflects what those announced.
Entry  == [seen : [Tags -> Nat], lastModified : Nat]

ASSUME NoEntryAssumption == NoEntry \notin Entry

VARIABLES
    clock,          \* Date.now(); the pods' clocks agree
    asked,          \* how many revalidations of each tag have been asked for
    \* the keys in Redis
    entry,          \* {prefix}/cache/{build}/{page}.cache
    tagPaths,       \* tag:{tag}
    pathTags,       \* path:{page}:tags
    revalidatedAt,  \* tag:{tag}:revalidatedAt, 0 when absent
    req,            \* the local state of each call
    \* history
    acked,          \* the last revalidation of each tag that has returned
    cause           \* how an entry came to miss a revalidation of a tag

redis   == <<entry, tagPaths, pathTags, revalidatedAt>>
history == <<acked, cause>>
vars    == <<clock, asked, redis, req, history>>

Causes == {"none", "overlap", "consumed", "tie", "regress", "unregistered", "fault"}
Stages == {"idle", "readEntry", "readTags", "readStamps", "clearStamps", "serve",
           "render", "stampEntry", "writeEntry", "readStored",
           "readPaths", "addPath", "addTag", "setStamp"}

ASSUME FailingAssumption == Failing \subseteq Stages /\ Dying \subseteq Stages

\* page, tag: what the call is about.  held: the entry it read, or will store.
\* pending: the tags its GET or DEL pipeline has still to visit.  stale:
\* staleeTags.  todo, item: the inputs of writeTags to come and the one being
\* written.  now: their revalidatedAt, 0 when undefined.  round: which
\* revalidation of tag this is.
Request ==
    [pc : Stages, page : Pages, tag : Tags, held : Entry \cup {NoEntry},
     pending : SUBSET Tags, stale : SUBSET Tags,
     todo : SUBSET Inputs, item : Inputs, now : Nat, round : Nat]

Idle ==
    [pc |-> "idle", page |-> CHOOSE p \in Pages : TRUE, tag |-> CHOOSE t \in Tags : TRUE,
     held |-> NoEntry, pending |-> {}, stale |-> {},
     todo |-> {}, item |-> CHOOSE i \in Inputs : TRUE, now |-> 0, round |-> 0]

\* buildKey: entries are isolated by build, the tag cache's keys are not.
KeyOf(c) == <<BuildOf[c], req[c].page>>

\* The cached entries that carry tag t.
Carriers(t) == {k \in Keys : entry[k] # NoEntry /\ t \in TagsOf[k[2]]}

At(c, stage) == req[c].pc = stage
Become(c, r) == req' = [req EXCEPT ![c] = r]

\* cause[k][t] becomes why for the keys in lost, unless one is known already.
Blame(t, lost, why) ==
    cause' = [k \in Keys |->
                 IF k \in lost /\ cause[k][t] = "none"
                     THEN [cause[k] EXCEPT ![t] = why] ELSE cause[k]]

Init ==
    /\ clock = 1
    /\ asked = [t \in Tags |-> 0]
    /\ entry = [k \in Keys |-> NoEntry]
    /\ tagPaths = [t \in Tags |-> {}]
    /\ pathTags = [p \in Pages |-> {}]
    /\ revalidatedAt = [t \in Tags |-> 0]
    /\ req = [c \in Calls |-> Idle]
    /\ acked = [t \in Tags |-> 0]
    /\ cause = [k \in Keys |-> [t \in Tags |-> "none"]]

----------------------------------------------------------------------------
(* A page request looks its entry up: incrementalCache.get, then           *)
(* getLastModified, whose answer -1 makes the hit a miss.                  *)

StartRequest(c, p) ==
    /\ At(c, "idle")
    /\ Become(c, [Idle EXCEPT !.pc = "readEntry", !.page = p])
    /\ UNCHANGED <<clock, asked, redis, history>>

ToRender(c) == [Idle EXCEPT !.pc = "render", !.page = req[c].page]

ReadEntry(c) ==
    /\ At(c, "readEntry")
    /\ Become(c, IF entry[KeyOf(c)] = NoEntry
                     THEN ToRender(c)
                     ELSE [req[c] EXCEPT !.pc = "readTags", !.held = entry[KeyOf(c)]])
    /\ UNCHANGED <<clock, asked, redis, history>>

ReadTags(c) ==
    /\ At(c, "readTags")
    /\ LET tags == pathTags[req[c].page] IN
       Become(c, [req[c] EXCEPT !.pc = IF tags = {} THEN "serve" ELSE "readStamps",
                                !.pending = tags])
    /\ UNCHANGED <<clock, asked, redis, history>>

\* The answers of the GET pipeline: the entry is served, or the newer stamps go.
Judge(c, rest, newer) ==
    [req[c] EXCEPT
        !.pc = IF rest # {} THEN "readStamps" ELSE IF newer = {} THEN "serve" ELSE "clearStamps",
        !.pending = IF rest = {} THEN newer ELSE rest,
        !.stale = newer]

\* Mutant of IsNewer: an entry as old as the stamp is stale too.
IsNewerOrEqual(stamp, lastModified) == stamp >= lastModified

IsNewer(stamp, lastModified) == stamp > lastModified

ReadStamp(c) ==
    /\ At(c, "readStamps")
    /\ \E t \in req[c].pending :
         Become(c, Judge(c, req[c].pending \ {t},
                         IF IsNewer(revalidatedAt[t], req[c].held.lastModified)
                             THEN req[c].stale \cup {t} ELSE req[c].stale))
    /\ UNCHANGED <<clock, asked, redis, history>>

Cleared(c, t) ==
    IF req[c].pending = {t} THEN ToRender(c) ELSE [req[c] EXCEPT !.pending = @ \ {t}]

\* Mutant of ClearStamp: the stamps stay.
ClearNothing(c) ==
    /\ At(c, "clearStamps")
    /\ \E t \in req[c].pending : Become(c, Cleared(c, t))
    /\ UNCHANGED <<clock, asked, redis, history>>

ClearStamp(c) ==
    /\ At(c, "clearStamps")
    /\ \E t \in req[c].pending :
         /\ revalidatedAt' = [revalidatedAt EXCEPT ![t] = 0]
         /\ Blame(t, {k \in Carriers(t) : entry[k].lastModified < revalidatedAt[t]}, "consumed")
         /\ Become(c, Cleared(c, t))
    /\ UNCHANGED <<clock, asked, entry, tagPaths, pathTags, acked>>

\* The response leaves: the cached entry in hand is what the client gets.
Serve(c) ==
    /\ At(c, "serve")
    /\ Become(c, Idle)
    /\ UNCHANGED <<clock, asked, redis, history>>

----------------------------------------------------------------------------
(* A miss renders the page and stores it: incrementalCache.set, then       *)
(* getByPath and writeTags for the tags not registered yet.                *)

Render(c) ==
    /\ At(c, "render")
    /\ Become(c, [req[c] EXCEPT !.pc = "stampEntry",
                                !.held = [seen |-> asked, lastModified |-> 0]])
    /\ UNCHANGED <<clock, asked, redis, history>>

\* Date.now() is taken before the SET is sent.
StampEntry(c) ==
    /\ At(c, "stampEntry")
    /\ Become(c, [req[c] EXCEPT !.pc = "writeEntry", !.held.lastModified = clock])
    /\ UNCHANGED <<clock, asked, redis, history>>

Stored(c) == [Idle EXCEPT !.pc = "readStored", !.page = req[c].page]

WriteEntry(c) ==
    /\ At(c, "writeEntry")
    /\ entry' = [entry EXCEPT ![KeyOf(c)] = req[c].held]
    /\ cause' = [cause EXCEPT ![KeyOf(c)] =
                    [t \in Tags |-> IF req[c].held.seen[t] < asked[t] THEN "overlap" ELSE "none"]]
    /\ Become(c, Stored(c))
    /\ UNCHANGED <<clock, asked, tagPaths, pathTags, revalidatedAt, acked>>

Register(c, tags) ==
    Become(c, IF tags = {} THEN Idle
              ELSE [req[c] EXCEPT !.pc = "addPath",
                                  !.todo = {[tag |-> t, page |-> req[c].page] : t \in tags}])

\* Mutant of ReadStored: a tag that is in use already counts as registered.
ReadStoredByTag(c) ==
    /\ At(c, "readStored")
    /\ Register(c, {t \in TagsOf[req[c].page] : tagPaths[t] = {}})
    /\ UNCHANGED <<clock, asked, redis, history>>

ReadStored(c) ==
    /\ At(c, "readStored")
    /\ Register(c, TagsOf[req[c].page] \ pathTags[req[c].page])
    /\ UNCHANGED <<clock, asked, redis, history>>

----------------------------------------------------------------------------
(* writeTags: for each input SADD tag:{tag}, SADD path:{page}:tags and,    *)
(* if revalidatedAt is given, SET tag:{tag}:revalidatedAt.                 *)

\* Mutant of AddPath: the path's own set is written first.
AddPathLast(c) ==
    /\ At(c, "addPath")
    /\ \E i \in req[c].todo :
         /\ pathTags' = [pathTags EXCEPT ![i.page] = @ \cup {i.tag}]
         /\ Become(c, [req[c] EXCEPT !.pc = "addTag", !.item = i, !.todo = @ \ {i}])
    /\ UNCHANGED <<clock, asked, entry, tagPaths, revalidatedAt, history>>

AddPath(c) ==
    /\ At(c, "addPath")
    /\ \E i \in req[c].todo :
         /\ tagPaths' = [tagPaths EXCEPT ![i.tag] = @ \cup {i.page}]
         /\ Become(c, [req[c] EXCEPT !.pc = "addTag", !.item = i, !.todo = @ \ {i}])
    /\ UNCHANGED <<clock, asked, entry, pathTags, revalidatedAt, history>>

\* The next input, or the end of the pipeline.
NextInput(c) == IF req[c].todo = {} THEN Idle ELSE [req[c] EXCEPT !.pc = "addPath"]

AfterAddTag(c) ==
    IF req[c].now # 0 THEN [req[c] EXCEPT !.pc = "setStamp"] ELSE NextInput(c)

AddTag(c) ==
    /\ At(c, "addTag")
    /\ LET i == req[c].item IN pathTags' = [pathTags EXCEPT ![i.page] = @ \cup {i.tag}]
    /\ Become(c, AfterAddTag(c))
    /\ UNCHANGED <<clock, asked, entry, tagPaths, revalidatedAt, history>>

\* The caller of revalidateTag is answered once the pipeline has run.
Acknowledge(c) ==
    acked' = [acked EXCEPT ![req[c].tag] =
                 IF req[c].todo = {} /\ req[c].round > @ THEN req[c].round ELSE @]

\* Mutants of SetStamp: a stamp that exists is kept (SET NX); the stamp is in
\* coarser units than lastModified.
SetStampOnce(c) ==
    /\ At(c, "setStamp")
    /\ LET t == req[c].tag  now == req[c].now IN
         /\ revalidatedAt' = [revalidatedAt EXCEPT ![t] = IF @ = 0 THEN now ELSE @]
         /\ Blame(t, {k \in Carriers(t) : entry[k].lastModified >= now}, "tie")
    /\ Acknowledge(c)
    /\ Become(c, NextInput(c))
    /\ UNCHANGED <<clock, asked, entry, tagPaths, pathTags>>

SetStampFloored(c) ==
    /\ At(c, "setStamp")
    /\ LET t == req[c].tag  now == req[c].now IN
         /\ revalidatedAt' = [revalidatedAt EXCEPT ![t] = now - 1]
         /\ Blame(t, {k \in Carriers(t) : entry[k].lastModified >= now}, "tie")
    /\ Acknowledge(c)
    /\ Become(c, NextInput(c))
    /\ UNCHANGED <<clock, asked, entry, tagPaths, pathTags>>

SetStamp(c) ==
    /\ At(c, "setStamp")
    /\ LET t == req[c].tag  now == req[c].now IN
         /\ revalidatedAt' = [revalidatedAt EXCEPT ![t] = now]
         /\ LET uncovered == {k \in Carriers(t) : entry[k].lastModified >= now} IN
            Blame(t, uncovered, IF revalidatedAt[t] > now THEN "regress" ELSE "tie")
    /\ Acknowledge(c)
    /\ Become(c, NextInput(c))
    /\ UNCHANGED <<clock, asked, entry, tagPaths, pathTags>>

----------------------------------------------------------------------------
(* revalidateTag: getByTag, then writeTags for every path found, stamped   *)
(* with the time of the call.                                              *)

StartRevalidation(c, t) ==
    /\ At(c, "idle")
    /\ asked[t] < MaxRevalidations
    /\ asked' = [asked EXCEPT ![t] = @ + 1]
    /\ Become(c, [Idle EXCEPT !.pc = "readPaths", !.tag = t, !.now = clock,
                              !.round = asked[t] + 1])
    /\ UNCHANGED <<clock, redis, history>>

\* Mutant of Found: tag and path swapped in the inputs.
FoundSwapped(c, paths) ==
    IF paths = {} THEN Idle
    ELSE [req[c] EXCEPT !.pc = "addPath",
                        !.todo = {[tag |-> p, page |-> req[c].tag] : p \in paths}]

\* An empty result makes an empty pipeline: nothing is stamped.
Found(c, paths) ==
    IF paths = {} THEN Idle
    ELSE [req[c] EXCEPT !.pc = "addPath",
                        !.todo = {[tag |-> req[c].tag, page |-> p] : p \in paths}]

ReadPaths(c) ==
    /\ At(c, "readPaths")
    /\ LET t == req[c].tag IN
         /\ Blame(t, {k \in Carriers(t) : k[2] \notin tagPaths[t]}, "unregistered")
         /\ Become(c, Found(c, tagPaths[t]))
         /\ IF tagPaths[t] = {} THEN Acknowledge(c) ELSE UNCHANGED acked
    /\ UNCHANGED <<clock, asked, redis>>

----------------------------------------------------------------------------
(* A failed command.  Every method catches the error: get answers null,    *)
(* getLastModified its argument, getByPath and getByTag [], set and        *)
(* writeTags nothing.  A pipeline's exec does not reject for a command     *)
(* that fails, and its commands' errors are not looked at, except that a   *)
(* failed GET makes no tag stale.                                          *)

FailRead(c) ==
    /\ Become(c, CASE At(c, "readEntry")  -> ToRender(c)
                   [] At(c, "readTags")   -> [req[c] EXCEPT !.pc = "serve"]
                   [] At(c, "writeEntry") -> Stored(c))
    /\ UNCHANGED history

FailPipelineRead(c) ==
    /\ \E t \in req[c].pending :
         Become(c, IF At(c, "readStamps")
                       THEN Judge(c, req[c].pending \ {t}, req[c].stale)
                       ELSE Cleared(c, t))
    /\ UNCHANGED history

FailAddPath(c) ==
    /\ \E i \in req[c].todo :
         Become(c, [req[c] EXCEPT !.pc = "addTag", !.item = i, !.todo = @ \ {i}])
    /\ UNCHANGED history

FailAddTag(c) ==
    /\ Blame(req[c].item.tag, IF req[c].now = 0 THEN {} ELSE Carriers(req[c].item.tag), "fault")
    /\ Become(c, AfterAddTag(c))
    /\ UNCHANGED acked

FailRevalidation(c) ==
    /\ Blame(req[c].tag, Carriers(req[c].tag), "fault")
    /\ Acknowledge(c)
    /\ Become(c, NextInput(c))

Fail(c) ==
    /\ req[c].pc \in Failing
    /\ \/ req[c].pc \in {"readEntry", "readTags", "writeEntry"} /\ FailRead(c)
       \/ req[c].pc \in {"readStamps", "clearStamps"} /\ FailPipelineRead(c)
       \/ At(c, "readStored") /\ Register(c, TagsOf[req[c].page]) /\ UNCHANGED history
       \/ At(c, "addPath") /\ FailAddPath(c)
       \/ At(c, "addTag") /\ FailAddTag(c)
       \/ req[c].pc \in {"readPaths", "setStamp"} /\ FailRevalidation(c)
    /\ UNCHANGED <<clock, asked, redis>>

\* The pod dies, or the render throws: the call is gone, Redis stays.
Die(c) ==
    /\ ~At(c, "idle") /\ req[c].pc \in Dying
    /\ Become(c, Idle)
    /\ UNCHANGED <<clock, asked, redis, history>>

----------------------------------------------------------------------------
(* The environment. *)

Tick ==
    /\ clock < MaxClock
    /\ clock' = clock + 1
    /\ UNCHANGED <<asked, redis, req, history>>

\* The entry's time to live (EX 3600) runs out, or incrementalCache.delete sends
\* its one DEL; the tag cache's keys have no time to live.
Expire(k) ==
    /\ entry[k] # NoEntry
    /\ entry' = [entry EXCEPT ![k] = NoEntry]
    /\ cause' = [cause EXCEPT ![k] = [t \in Tags |-> "none"]]
    /\ UNCHANGED <<clock, asked, tagPaths, pathTags, revalidatedAt, req, acked>>

Step(c) ==
    \/ ReadEntry(c) \/ ReadTags(c) \/ ReadStamp(c) \/ ClearStamp(c) \/ Serve(c)
    \/ Render(c) \/ StampEntry(c) \/ WriteEntry(c) \/ ReadStored(c)
    \/ AddPath(c) \/ AddTag(c) \/ SetStamp(c) \/ ReadPaths(c)

Next ==
    \/ \E c \in Calls :
         \/ Step(c) \/ Fail(c) \/ Die(c)
         \/ \E p \in Pages : StartRequest(c, p)
         \/ \E t \in Tags : StartRevalidation(c, t)
    \/ Tick
    \/ \E k \in Keys : Expire(k)

Spec == Init /\ [][Next]_vars

\* The event loops run and Redis answers; nobody has to call anything.
FairSpec == Spec /\ \A c \in Calls : WF_vars(Step(c))

----------------------------------------------------------------------------
TypeOK ==
    /\ clock \in 1..MaxClock
    /\ asked \in [Tags -> 0..MaxRevalidations]
    /\ entry \in [Keys -> Entry \cup {NoEntry}]
    /\ tagPaths \in [Tags -> SUBSET Pages]
    /\ pathTags \in [Pages -> SUBSET Tags]
    /\ revalidatedAt \in [Tags -> Nat]
    /\ req \in [Calls -> Request]
    /\ acked \in [Tags -> Nat]
    /\ cause \in [Keys -> [Tags -> Causes]]

\* Whether a reader of entry k is told that a revalidation of t outdates it.
Covered(k, t) ==
    /\ t \in pathTags[k[2]]
    /\ revalidatedAt[t] > entry[k].lastModified

\* The two indexes agree where it matters: a tag that getLastModified consults
\* for a page (path:{page}:tags) lists that page for revalidateTag (tag:{tag}).
\* writeTags owes this to the order of its two SADDs.
IndexSound ==
    \A p \in Pages : \A t \in pathTags[p] : p \in tagPaths[t]

\* No entry is thrown away needlessly: when getLastModified is about to answer
\* -1, for each tag it found stale a revalidation was asked for after the
\* entry's content was rendered.
NoNeedlessMiss ==
    \A c \in Calls : At(c, "clearStamps") =>
        \A t \in req[c].stale : req[c].held.seen[t] < asked[t]

\* Unless a call is still at it, every cached page is registered under every
\* tag it carries, so that revalidateTag finds it (no failures, no deaths).
CachedIsRegistered ==
    \A k \in Keys : entry[k] # NoEntry =>
        \/ \A t \in TagsOf[k[2]] : k[2] \in tagPaths[t] /\ t \in pathTags[k[2]]
        \/ \E c \in Calls : /\ req[c].page = k[2]
                            /\ req[c].pc \in {"readStored", "addPath", "addTag"}

\* An entry that predates a revalidation whose caller has been answered is
\* covered by a stamp, or lost its cover in one of the ways of Causes: it was
\* rendered before the revalidation and stored after it (overlap), a reader of
\* an older entry cleared the stamp (consumed), it was stored in the very
\* millisecond of the stamp (tie), a slower revalidation put an older stamp
\* back (regress), the page was not yet registered under the tag
\* (unregistered), or an error was swallowed (fault).  There is no other way.
StaleHasCause ==
    \A k \in Keys : \A t \in TagsOf[k[2]] :
        (entry[k] # NoEntry /\ entry[k].seen[t] < acked[t] /\ cause[k][t] = "none")
            => Covered(k, t)

\* redis-tag-cache.ts:140 clears the stamps "to prevent infinite revalidation
\* loop": once revalidations stop (they are bounded here), readers stop being
\* sent to regenerate, even if Redis accepts no new entry ever again.
NoInfiniteRegeneration == <>[](\A c \in Calls : ~At(c, "clearStamps"))

\* redis-tag-cache.ts:141 "The next cache.set() will create a fresh entry": an
\* entry that lost its stamp to a reader is being regenerated.
ConsumedIsRegenerated ==
    \A k \in Keys : \A t \in TagsOf[k[2]] :
        (/\ entry[k] # NoEntry /\ entry[k].seen[t] < acked[t]
         /\ cause[k][t] = "consumed" /\ ~Covered(k, t))
            => \E c \in Calls : /\ KeyOf(c) = k
                               /\ req[c].pc \in {"clearStamps", "render", "stampEntry", "writeEntry"}
=============================================================================
