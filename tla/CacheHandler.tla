---------------------------- MODULE CacheHandler ----------------------------
(***************************************************************************)
(* The Next.js cache handler of the file-manager application               *)
(* (apps/file-manager/cache-handler.js): ISR and data cache entries in     *)
(* Redis, found through one set of keys per tag, with an in-memory Map per *)
(* pod for when Redis is not configured or not connected.                  *)
(*                                                                         *)
(* A Redis command is one step, and so is one command of a pipeline.  Next *)
(* calls get, renders on a miss and calls set; it calls revalidateTag for  *)
(* the application.                                                        *)
(***************************************************************************)
EXTENDS Integers, FiniteSets

CONSTANTS
    Pods,              \* processes, each with its own module state
    Calls,             \* handler calls running at the same time
    Keys, Tags,
    TagsOf,            \* ctx.tags of a key
    NoEntry,
    UseRedis,          \* whether REDIS_URL is set
    Outages,           \* whether pods may be without a connection to Redis
    Deaths,            \* whether a call may die (pod killed, render throws)
    MaxRevalidations   \* bound: revalidateTag calls per tag

ASSUME NonEmptyAssumption == Pods # {} /\ Keys # {}
ASSUME TagsOfAssumption   == TagsOf \in [Keys -> SUBSET Tags]
ASSUME ModeAssumption     == UseRedis \in BOOLEAN /\ Outages \in BOOLEAN /\ Deaths \in BOOLEAN
ASSUME BoundAssumption    == MaxRevalidations \in Nat

\* An entry is told by how many revalidations of each tag had been asked for
\* when its content was rendered.
Entry == [Tags -> Nat]

ASSUME NoEntryAssumption  == NoEntry \notin Entry \cup Tags

VARIABLES
    ready,    \* per pod, whether its client's status is 'ready'
    cache,    \* {prefix}:cache:{key} in Redis
    tagKeys,  \* {prefix}:tag:{tag} in Redis
    memory,   \* memoryCache of each pod
    req,      \* the local state of each call
    \* history
    asked,    \* how many revalidations of each tag have been asked for
    acked,    \* the last revalidation of each tag that has returned
    unmapped, \* the keys and tags whose SADD was undone by a DEL, or never done
    spared,   \* per call of revalidateTag, the keys that its DELs will have passed over:
              \* stored or added to its tag's set since SMEMBERS, or the DEL failed
    missed    \* how an entry in Redis came to survive a revalidation of a tag

redis   == <<cache, tagKeys>>
history == <<asked, acked, unmapped, spared, missed>>
vars    == <<ready, redis, memory, req, history>>

Causes == {"none", "overlap", "unlisted", "fault"}
Stages == {"idle", "get", "serve", "render", "set", "redisSet", "redisSadd", "memorySet",
           "delete", "redisDel", "revalidate", "smembers", "delKeys", "delTag"}

\* pod: where the call runs.  held: the entry read or to store.  tags: the tags
\* still to SADD or to revalidate.  keys: what SMEMBERS listed and is not deleted
\* yet.  round: the revalidations that had returned when a get began, and had
\* been asked for when a revalidateTag did.
Request ==
    [pc : Stages, pod : Pods, key : Keys, held : Entry \cup {NoEntry}, tags : SUBSET Tags,
     tag : Tags \cup {NoEntry}, keys : SUBSET Keys, round : [Tags -> Nat]]

Idle ==
    [pc |-> "idle", pod |-> CHOOSE o \in Pods : TRUE, key |-> CHOOSE k \in Keys : TRUE,
     held |-> NoEntry, tags |-> {}, tag |-> NoEntry, keys |-> {}, round |-> [t \in Tags |-> 0]]

At(c, stage) == req[c].pc = stage
Become(c, r) == req' = [req EXCEPT ![c] = r]
Goto(c, stage) == Become(c, [req[c] EXCEPT !.pc = stage])

\* ensureConnected: the client when it is ready (after awaiting a connection
\* attempt, if one is due), null otherwise.
Client(c) == UseRedis /\ ready[req[c].pod]

Init ==
    /\ ready = [o \in Pods |-> ~Outages]
    /\ cache = [k \in Keys |-> NoEntry]
    /\ tagKeys = [t \in Tags |-> {}]
    /\ memory = [o \in Pods |-> [k \in Keys |-> NoEntry]]
    /\ req = [c \in Calls |-> Idle]
    /\ asked = [t \in Tags |-> 0]
    /\ acked = [t \in Tags |-> 0]
    /\ unmapped = {}
    /\ spared = [c \in Calls |-> {}]
    /\ missed = [k \in Keys |-> [t \in Tags |-> "none"]]

\* missed[k][t] becomes why for the <<k, t>> in pairs, unless a cause is known.
Blame(pairs, why) ==
    missed' = [k \in Keys |-> [t \in Tags |->
                  IF <<k, t>> \in pairs /\ missed[k][t] = "none" THEN why ELSE missed[k][t]]]

\* The key k is gone from Redis, and with it what its entry has missed.
Drop(k) ==
    /\ cache' = [cache EXCEPT ![k] = NoEntry]
    /\ missed' = [missed EXCEPT ![k] = [t \in Tags |-> "none"]]

\* The key k is stored, or added to the sets of the tags ts: too late for the
\* calls that have read one of these sets and have not deleted it yet.
Spare(k, ts) ==
    spared' = [c \in Calls |-> IF req[c].pc \in {"delKeys", "delTag"} /\ req[c].tag \in ts
                                   THEN spared[c] \cup {k} ELSE spared[c]]

\* The entries in Redis that a call has been asked to revalidate by a tag in ts.
Targets(c, ts) ==
    {x \in Keys \X ts : LET k == x[1]  t == x[2] IN
        cache[k] # NoEntry /\ t \in TagsOf[k] /\ cache[k][t] < req[c].round[t]}

----------------------------------------------------------------------------
(* get *)

StartGet(c, o, k) ==
    /\ At(c, "idle")
    /\ Become(c, [Idle EXCEPT !.pc = "get", !.pod = o, !.key = k, !.round = acked])
    /\ UNCHANGED <<ready, redis, memory, history>>

\* The entry that get finds: Redis when connected, this pod's memory otherwise.
Found(c) == IF Client(c) THEN cache[req[c].key] ELSE memory[req[c].pod][req[c].key]

Get(c) ==
    /\ At(c, "get")
    /\ Become(c, [req[c] EXCEPT !.pc = IF Found(c) = NoEntry THEN "render" ELSE "serve",
                                !.held = Found(c)])
    /\ UNCHANGED <<ready, redis, memory, history>>

Serve(c) ==
    /\ At(c, "serve")
    /\ Become(c, Idle)
    /\ UNCHANGED <<ready, redis, memory, history>>

----------------------------------------------------------------------------
(* set, with the rendered data or with null *)

Render(c) ==
    /\ At(c, "render")
    /\ Become(c, [req[c] EXCEPT !.pc = "set", !.held = asked])
    /\ UNCHANGED <<ready, redis, memory, history>>

Set(c) ==
    /\ At(c, "set")
    /\ Become(c, [req[c] EXCEPT !.pc = IF Client(c) THEN "redisSet" ELSE "memorySet",
                                !.tags = TagsOf[req[c].key]])
    /\ UNCHANGED <<ready, redis, memory, history>>

\* Mutant of AfterSadd: the last tag is left out.
AfterSaddButLast(c, tags) ==
    [req[c] EXCEPT !.pc = IF Cardinality(tags) <= 1 THEN "memorySet" ELSE "redisSadd", !.tags = tags]

AfterSadd(c, tags) ==
    [req[c] EXCEPT !.pc = IF tags = {} THEN "memorySet" ELSE "redisSadd", !.tags = tags]

RedisSet(c) ==
    /\ At(c, "redisSet") /\ Client(c)
    /\ LET k == req[c].key  data == req[c].held IN
         /\ cache' = [cache EXCEPT ![k] = data]
         /\ missed' = [missed EXCEPT ![k] =
                         [t \in Tags |-> IF data[t] < asked[t] THEN "overlap" ELSE "none"]]
         /\ unmapped' = unmapped \ ({k} \X Tags)
         /\ Spare(k, TagsOf[k])
    /\ Become(c, AfterSadd(c, req[c].tags))
    /\ UNCHANGED <<ready, tagKeys, memory, asked, acked>>

\* Mutant of RedisSadd: the tag is added to its own set.
RedisSaddTag(c) ==
    /\ At(c, "redisSadd") /\ Client(c)
    /\ \E t \in req[c].tags :
         /\ tagKeys' = [tagKeys EXCEPT ![t] = @ \cup {t}]
         /\ Become(c, AfterSadd(c, req[c].tags \ {t}))
    /\ UNCHANGED <<ready, cache, memory, history>>

RedisSadd(c) ==
    /\ At(c, "redisSadd") /\ Client(c)
    /\ \E t \in req[c].tags :
         /\ tagKeys' = [tagKeys EXCEPT ![t] = @ \cup {req[c].key}]
         /\ unmapped' = unmapped \ {<<req[c].key, t>>}
         /\ Spare(req[c].key, {t})
         /\ Become(c, AfterSadd(c, req[c].tags \ {t}))
    /\ UNCHANGED <<ready, cache, memory, asked, acked, missed>>

MemorySet(c) ==
    /\ At(c, "memorySet")
    /\ memory' = [memory EXCEPT ![req[c].pod][req[c].key] = req[c].held]
    /\ Become(c, Idle)
    /\ UNCHANGED <<ready, redis, history>>

StartDelete(c, o, k) ==
    /\ At(c, "idle")
    /\ Become(c, [Idle EXCEPT !.pc = "delete", !.pod = o, !.key = k])
    /\ UNCHANGED <<ready, redis, memory, history>>

\* Without a client only the memory entry goes.
Forget(c) ==
    /\ memory' = [memory EXCEPT ![req[c].pod][req[c].key] = NoEntry]
    /\ Become(c, Idle)

Delete(c) ==
    /\ At(c, "delete")
    /\ IF Client(c) THEN Goto(c, "redisDel") /\ UNCHANGED memory ELSE Forget(c)
    /\ UNCHANGED <<ready, redis, history>>

RedisDel(c) ==
    /\ At(c, "redisDel") /\ Client(c)
    /\ Drop(req[c].key)
    /\ Forget(c)
    /\ UNCHANGED <<ready, tagKeys, asked, acked, unmapped, spared>>

----------------------------------------------------------------------------
(* revalidateTag *)

StartRevalidation(c, o, ts) ==
    /\ At(c, "idle")
    /\ \A t \in ts : asked[t] < MaxRevalidations
    /\ asked' = [t \in Tags |-> IF t \in ts THEN asked[t] + 1 ELSE asked[t]]
    /\ Become(c, [Idle EXCEPT !.pc = "revalidate", !.pod = o, !.tags = ts, !.round = asked'])
    /\ UNCHANGED <<ready, redis, memory, acked, unmapped, spared, missed>>

\* The call returns; its caller takes the tags ts as revalidated.
Acknowledge(c, ts) ==
    acked' = [t \in Tags |-> IF t \in ts /\ req[c].round[t] > acked[t]
                                 THEN req[c].round[t] ELSE acked[t]]

\* Next tag of the loop over tagList, or the end.
NextTag(c) ==
    IF req[c].tags = {} THEN Become(c, Idle)
    ELSE \E t \in req[c].tags :
           Become(c, [req[c] EXCEPT !.pc = "smembers", !.tag = t, !.tags = @ \ {t}, !.keys = {}])

\* Mutant of Revalidate: Redis is taken to be revalidated with the memory.
RevalidateMemory(c) ==
    /\ At(c, "revalidate")
    /\ memory' = [memory EXCEPT ![req[c].pod] =
                     [k \in Keys |-> IF TagsOf[k] \cap req[c].tags # {} THEN NoEntry ELSE @[k]]]
    /\ Acknowledge(c, req[c].tags)
    /\ Become(c, Idle)
    /\ UNCHANGED <<ready, redis, asked, unmapped, spared, missed>>

\* Without a client, the entries of this pod's memory with one of the tags go.
Revalidate(c) ==
    /\ At(c, "revalidate")
    /\ IF Client(c)
         THEN NextTag(c) /\ UNCHANGED <<memory, acked, missed>>
         ELSE /\ memory' = [memory EXCEPT ![req[c].pod] =
                              [k \in Keys |-> IF TagsOf[k] \cap req[c].tags # {}
                                                  THEN NoEntry ELSE @[k]]]
              /\ Blame(Targets(c, req[c].tags), "fault")
              /\ Acknowledge(c, req[c].tags)
              /\ Become(c, Idle)
    /\ UNCHANGED <<ready, redis, asked, unmapped, spared>>

Smembers(c) ==
    /\ At(c, "smembers") /\ Client(c)
    /\ LET t == req[c].tag IN
         /\ Blame({x \in Targets(c, {t}) : x[1] \notin tagKeys[t]}, "unlisted")
         /\ IF tagKeys[t] = {}
              THEN NextTag(c) /\ Acknowledge(c, {t})
              ELSE /\ Become(c, [req[c] EXCEPT !.pc = "delKeys", !.keys = tagKeys[t]])
                   /\ UNCHANGED acked
    /\ UNCHANGED <<ready, redis, memory, asked, unmapped, spared>>

\* Mutant of AfterDel: one key is deleted, then the tag set.
AfterDelOne(c, keys) == [req[c] EXCEPT !.pc = "delTag", !.keys = {}]

AfterDel(c, keys) ==
    [req[c] EXCEPT !.pc = IF keys = {} THEN "delTag" ELSE "delKeys", !.keys = keys]

\* Mutant of DelKey: only the tag set is deleted.
DelNoKey(c) ==
    /\ At(c, "delKeys") /\ Client(c)
    /\ Become(c, AfterDel(c, {}))
    /\ UNCHANGED <<ready, redis, memory, history>>

DelKey(c) ==
    /\ At(c, "delKeys") /\ Client(c)
    /\ \E k \in req[c].keys : Drop(k) /\ Become(c, AfterDel(c, req[c].keys \ {k}))
    /\ UNCHANGED <<ready, tagKeys, memory, asked, acked, unmapped, spared>>

\* A SADD of k to t that has been sent or will be.
Mapping(k, t) == \E d \in Calls : At(d, "redisSadd") /\ req[d].key = k /\ t \in req[d].tags

\* The whole tag set goes, with the keys that the DELs before have passed over.
DelTag(c) ==
    /\ At(c, "delTag") /\ Client(c)
    /\ LET t == req[c].tag IN
         /\ tagKeys' = [tagKeys EXCEPT ![t] = {}]
         /\ unmapped' = unmapped \cup {<<k, t>> : k \in {j \in tagKeys[t] \cap spared[c] : ~Mapping(j, t)}}
         /\ Acknowledge(c, {t})
    /\ spared' = [spared EXCEPT ![c] = {}]
    /\ NextTag(c)
    /\ UNCHANGED <<ready, cache, memory, asked, missed>>

----------------------------------------------------------------------------
(* Failures.  A command on a lost connection fails after its retries: get  *)
(* answers null, set(null) stops before the memory entry, a pipeline's     *)
(* exec ignores its failed commands, a rejected SMEMBERS ends              *)
(* revalidateTag, whose caller sees no error.                              *)

FailGet(c) ==
    /\ At(c, "get")
    /\ Become(c, [req[c] EXCEPT !.pc = "render"])
    /\ UNCHANGED <<acked, unmapped, spared, missed>>

FailSet(c) ==
    /\ \/ At(c, "redisSet") /\ Become(c, AfterSadd(c, req[c].tags)) /\ UNCHANGED unmapped
       \/ /\ At(c, "redisSadd")
          /\ \E t \in req[c].tags :
               /\ unmapped' = IF req[c].key \in tagKeys[t]
                                  THEN unmapped ELSE unmapped \cup {<<req[c].key, t>>}
               /\ Become(c, AfterSadd(c, req[c].tags \ {t}))
       \/ At(c, "redisDel") /\ Become(c, Idle) /\ UNCHANGED unmapped
    /\ UNCHANGED <<acked, spared, missed>>

FailRevalidation(c) ==
    /\ \/ /\ At(c, "smembers")
          /\ LET ts == req[c].tags \cup {req[c].tag} IN
             Blame(Targets(c, ts), "fault") /\ Acknowledge(c, ts)
          /\ Become(c, Idle)
          /\ UNCHANGED spared
       \/ /\ At(c, "delKeys")
          /\ \E k \in req[c].keys :
               /\ Blame({x \in Targets(c, {req[c].tag}) : x[1] = k}, "fault")
               /\ spared' = [spared EXCEPT ![c] = @ \cup {k}]
               /\ Become(c, AfterDel(c, req[c].keys \ {k}))
          /\ UNCHANGED acked
       \/ /\ At(c, "delTag")
          /\ NextTag(c) /\ Acknowledge(c, {req[c].tag})
          /\ spared' = [spared EXCEPT ![c] = {}]
          /\ UNCHANGED missed
    /\ UNCHANGED unmapped

Fail(c) ==
    /\ UseRedis /\ ~ready[req[c].pod]
    /\ FailGet(c) \/ FailSet(c) \/ FailRevalidation(c)
    /\ UNCHANGED <<ready, redis, memory, asked>>

\* The render throws: nothing is set.
Throw(c) ==
    /\ At(c, "render")
    /\ Become(c, Idle)
    /\ UNCHANGED <<ready, redis, memory, history>>

On(o) == {c \in Calls : ~At(c, "idle") /\ req[c].pod = o}

\* The pod is killed, with its calls; its successor's memory starts empty.
Kill(o) ==
    /\ Deaths
    /\ unmapped' = unmapped \cup
           {x \in Keys \X Tags : LET k == x[1]  t == x[2] IN
               /\ k \notin tagKeys[t]
               /\ \E c \in On(o) : At(c, "redisSadd") /\ req[c].key = k /\ t \in req[c].tags}
    /\ memory' = [memory EXCEPT ![o] = [k \in Keys |-> NoEntry]]
    /\ req' = [c \in Calls |-> IF c \in On(o) THEN Idle ELSE req[c]]
    /\ spared' = [c \in Calls |-> IF c \in On(o) THEN {} ELSE spared[c]]
    /\ UNCHANGED <<ready, redis, asked, acked, missed>>

----------------------------------------------------------------------------
(* The environment: ioredis connects and loses connections, Redis drops    *)
(* entries whose time to live is over; tag sets and memoryCache have none. *)

Connect(o) ==
    /\ UseRedis /\ ~ready[o]
    /\ ready' = [ready EXCEPT ![o] = TRUE]
    /\ UNCHANGED <<redis, memory, req, history>>

Disconnect(o) ==
    /\ UseRedis /\ Outages /\ ready[o]
    /\ ready' = [ready EXCEPT ![o] = FALSE]
    /\ UNCHANGED <<redis, memory, req, history>>

Expire(k) ==
    /\ cache[k] # NoEntry
    /\ Drop(k)
    /\ UNCHANGED <<ready, tagKeys, memory, req, asked, acked, unmapped, spared>>

Next ==
    \/ \E c \in Calls :
         \/ Get(c) \/ Serve(c) \/ Render(c) \/ Set(c) \/ RedisSet(c) \/ RedisSadd(c)
         \/ MemorySet(c) \/ Delete(c) \/ RedisDel(c)
         \/ Revalidate(c) \/ Smembers(c) \/ DelKey(c) \/ DelTag(c)
         \/ Fail(c) \/ Throw(c)
         \/ \E o \in Pods :
              \/ \E k \in Keys : StartGet(c, o, k) \/ StartDelete(c, o, k)
              \/ \E ts \in SUBSET Tags \ {{}} : StartRevalidation(c, o, ts)
    \/ \E o \in Pods : Kill(o) \/ Connect(o) \/ Disconnect(o)
    \/ \E k \in Keys : Expire(k)

Spec == Init /\ [][Next]_vars

----------------------------------------------------------------------------
TypeOK ==
    /\ ready \in [Pods -> BOOLEAN]
    /\ cache \in [Keys -> Entry \cup {NoEntry}]
    /\ tagKeys \in [Tags -> SUBSET Keys]
    /\ memory \in [Pods -> [Keys -> Entry \cup {NoEntry}]]
    /\ req \in [Calls -> Request]
    /\ asked \in [Tags -> 0..MaxRevalidations]
    /\ acked \in [Tags -> 0..MaxRevalidations]
    /\ unmapped \subseteq Keys \X Tags
    /\ spared \in [Calls -> SUBSET Keys]
    /\ missed \in [Keys -> [Tags -> Causes]]

\* Every entry in Redis can be found by each of its tags, or a SADD is on its
\* way, or one of these has happened: revalidateTag's DEL of the tag set took
\* along a key that was stored or added after its SMEMBERS, or a key whose own
\* DEL had failed; a SADD failed; or a SADD died with its pod.
UnmappedHasCause ==
    \A k \in Keys : \A t \in TagsOf[k] :
        cache[k] # NoEntry => \/ k \in tagKeys[t] \/ Mapping(k, t)
                             \/ <<k, t>> \in unmapped

\* An entry still in Redis after a revalidation of its tag has returned, and
\* rendered before it, was stored after the revalidation was asked for
\* (overlap), was not in the tag set when SMEMBERS read it (unlisted), or a
\* command failed or the revalidation had no connection and cleared only its
\* pod's memory (fault).  There is no other way.
StaleHasCause ==
    \A k \in Keys : \A t \in TagsOf[k] :
        (cache[k] # NoEntry /\ cache[k][t] < acked[t]) => missed[k][t] # "none"

\* With one call at a time and Redis connected, no pod serves content older
\* than a revalidation that returned before the call began: "stores ISR/data
\* cache in Redis for multi-pod consistency" (cache-handler.js:5).
ServedIsCurrent ==
    \A c \in Calls : At(c, "serve") =>
        \A t \in TagsOf[req[c].key] : req[c].held[t] >= req[c].round[t]
=============================================================================
