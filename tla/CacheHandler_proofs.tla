------------------------- MODULE CacheHandler_proofs -------------------------
(***************************************************************************)
(* Proofs about the application cache handler, for any pods, calls, keys   *)
(* and tags, with or without Redis, with any outages and deaths.           *)
(***************************************************************************)
EXTENDS CacheHandler, TLAPS

----------------------------------------------------------------------------
(* Types. *)

InLoop == {"smembers", "delKeys", "delTag"}

\* revalidateTag has a tag in hand inside its loop, and no revalidation is
\* pending or acknowledged that has not been asked for.
TypeInv ==
    /\ TypeOK
    /\ \A c \in Calls : req[c].pc \in InLoop => req[c].tag \in Tags
    /\ \A c \in Calls : \A t \in Tags : req[c].round[t] <= asked[t]
    /\ \A t \in Tags : acked[t] <= asked[t]

LEMMA IdleIsRequest ==
  /\ Idle \in Request
  /\ Idle.pc = "idle" /\ Idle.tags = {} /\ \A t \in Tags : Idle.round[t] = 0
<1>1. (CHOOSE o \in Pods : TRUE) \in Pods /\ (CHOOSE k \in Keys : TRUE) \in Keys
  BY NonEmptyAssumption
<1> QED BY <1>1 DEF Idle, Request, Stages

\* What Become does to the calls.
LEMMA Becomes ==
  ASSUME req \in [Calls -> Request], NEW c \in Calls, NEW r \in Request, Become(c, r)
  PROVE  /\ req' \in [Calls -> Request]
         /\ req'[c] = r
         /\ \A d \in Calls : d # c => req'[d] = req[d]
  BY DEF Become

LEMMA TypeInvInit == Init => TypeInv
<1> SUFFICES ASSUME Init PROVE TypeInv
  OBVIOUS
<1>1. \A c \in Calls : req[c] = Idle
  BY DEF Init
<1>2. ready \in [Pods -> BOOLEAN]
  BY ModeAssumption DEF Init
<1>3. TypeOK
  BY <1>2, IdleIsRequest, BoundAssumption DEF Init, TypeOK, Causes
<1> QED BY <1>1, <1>3, IdleIsRequest, BoundAssumption DEF Init, TypeInv, InLoop

\* Nothing but a revalidation raises asked or acked: a step that changes one call
\* to r and leaves these alone keeps the invariant if the rest of it is typed.
LEMMA TypeStep ==
  ASSUME TypeInv, NEW c \in Calls, NEW r \in Request, Become(c, r),
         UNCHANGED <<ready, asked, acked>>,
         r.pc \in InLoop => r.tag \in Tags,
         \A t \in Tags : r.round[t] <= asked[t],
         cache' \in [Keys -> Entry \cup {NoEntry}],
         tagKeys' \in [Tags -> SUBSET Keys],
         memory' \in [Pods -> [Keys -> Entry \cup {NoEntry}]],
         unmapped' \subseteq Keys \X Tags, spared' \in [Calls -> SUBSET Keys],
         missed' \in [Keys -> [Tags -> Causes]]
  PROVE  TypeInv'
<1>1. req \in [Calls -> Request]
  BY DEF TypeInv, TypeOK
<1>2. /\ req' \in [Calls -> Request]
      /\ req'[c] = r
      /\ \A d \in Calls : d # c => req'[d] = req[d]
  BY <1>1, Becomes
<1> QED BY <1>2 DEF TypeInv, TypeOK

\* The same for a step that acknowledges the tags ts as well.
LEMMA AcknowledgeType ==
  ASSUME TypeInv, NEW c \in Calls, NEW ts \in SUBSET Tags, Acknowledge(c, ts), UNCHANGED asked
  PROVE  /\ acked' \in [Tags -> 0..MaxRevalidations]
         /\ \A t \in Tags : acked'[t] <= asked'[t]
<1>1. \A t \in Tags : req[c].round[t] \in Nat
  BY DEF TypeInv, TypeOK, Request
<1>2. \A t \in Tags : acked[t] \in Nat /\ asked[t] \in Nat /\ asked[t] <= MaxRevalidations
  BY BoundAssumption DEF TypeInv, TypeOK
<1>3. acked' = [t \in Tags |-> IF t \in ts /\ req[c].round[t] > acked[t]
                                 THEN req[c].round[t] ELSE acked[t]]
  BY DEF Acknowledge
<1>4. \A t \in Tags : acked'[t] \in Nat /\ acked'[t] <= asked[t]
  BY <1>1, <1>2, <1>3 DEF TypeInv
<1>5. \A t \in Tags : acked'[t] \in 0..MaxRevalidations
  BY <1>2, <1>4, BoundAssumption
<1> QED BY <1>3, <1>4, <1>5

LEMMA BlameType ==
  ASSUME TypeInv, NEW pairs, NEW why \in Causes, Blame(pairs, why)
  PROVE  missed' \in [Keys -> [Tags -> Causes]]
  BY DEF Blame, TypeInv, TypeOK

LEMMA DropType ==
  ASSUME TypeInv, NEW k \in Keys, Drop(k)
  PROVE  /\ cache' \in [Keys -> Entry \cup {NoEntry}]
         /\ missed' \in [Keys -> [Tags -> Causes]]
  BY DEF Drop, TypeInv, TypeOK, Causes

\* NextTag leaves the call idle or at SMEMBERS of one of its tags.
LEMMA NextTagLeads ==
  ASSUME TypeInv, NEW c \in Calls, NextTag(c)
  PROVE  \E r \in Request :
            /\ Become(c, r)
            /\ \/ r = Idle
               \/ r.pc = "smembers" /\ r.tag \in req[c].tags /\ r.round = req[c].round
<1>1. req[c] \in Request
  BY DEF TypeInv, TypeOK
<1>2. CASE req[c].tags = {}
  BY <1>2, IdleIsRequest DEF NextTag
<1>3. CASE req[c].tags # {}
  <2>1. PICK t \in req[c].tags :
          Become(c, [req[c] EXCEPT !.pc = "smembers", !.tag = t, !.tags = @ \ {t}, !.keys = {}])
    BY <1>3 DEF NextTag
  <2> DEFINE r == [req[c] EXCEPT !.pc = "smembers", !.tag = t, !.tags = @ \ {t}, !.keys = {}]
  <2>2. /\ r \in Request
        /\ r.pc = "smembers" /\ r.tag = t /\ r.round = req[c].round
    BY <1>1 DEF Request, Stages
  <2>3. Become(c, r)
    BY <2>1
  <2> HIDE DEF r
  <2> QED BY <2>2, <2>3
<1> QED BY <1>2, <1>3

\* The calls of get and set.
LEMMA GetSetType ==
  ASSUME TypeInv, NEW c \in Calls,
         Get(c) \/ Serve(c) \/ Render(c) \/ Set(c) \/ Throw(c) \/ MemorySet(c) \/ Delete(c)
  PROVE  TypeInv'
<1> DEFINE call == req[c]
<1>1. /\ call \in Request /\ call.key \in Keys /\ call.pod \in Pods
      /\ call.held \in Entry \cup {NoEntry}
      /\ \A t \in Tags : call.round[t] <= asked[t]
  BY DEF TypeInv, TypeOK, Request
<1>2. /\ cache \in [Keys -> Entry \cup {NoEntry}]
      /\ tagKeys \in [Tags -> SUBSET Keys]
      /\ memory \in [Pods -> [Keys -> Entry \cup {NoEntry}]]
      /\ unmapped \subseteq Keys \X Tags /\ spared \in [Calls -> SUBSET Keys]
      /\ missed \in [Keys -> [Tags -> Causes]]
      /\ asked \in [Tags -> Nat]
  BY BoundAssumption DEF TypeInv, TypeOK
<1>3. \A t \in Tags : Idle.round[t] <= asked[t]
  BY <1>2, IdleIsRequest
<1>4. ASSUME Become(c, Idle), UNCHANGED <<ready, redis, history>>,
             memory' \in [Pods -> [Keys -> Entry \cup {NoEntry}]]
      PROVE  TypeInv'
  BY <1>2, <1>3, <1>4, IdleIsRequest, TypeStep DEF redis, history, InLoop
<1>5. ASSUME NEW r \in Request, Become(c, r), r.pc \notin InLoop, r.round = call.round,
             UNCHANGED <<ready, redis, memory, history>>
      PROVE  TypeInv'
  BY <1>1, <1>2, <1>5, TypeStep DEF redis, history
<1>6. ASSUME Get(c) PROVE TypeInv'
  <2>1. Found(c) \in Entry \cup {NoEntry}
    BY <1>1, <1>2 DEF Found
  <2> DEFINE r == [call EXCEPT !.pc = IF Found(c) = NoEntry THEN "render" ELSE "serve",
                               !.held = Found(c)]
  <2>2. r \in Request /\ r.pc \notin InLoop /\ r.round = call.round
    BY <1>1, <2>1 DEF Request, Stages, InLoop
  <2>3. Become(c, r) /\ UNCHANGED <<ready, redis, memory, history>>
    BY <1>6 DEF Get
  <2> HIDE DEF r
  <2> QED BY <1>5, <2>2, <2>3
<1>7. ASSUME Serve(c) \/ Throw(c) PROVE TypeInv'
  BY <1>2, <1>4, <1>7 DEF Serve, Throw
<1>8. ASSUME Render(c) PROVE TypeInv'
  <2> DEFINE r == [call EXCEPT !.pc = "set", !.held = asked]
  <2>1. r \in Request /\ r.pc \notin InLoop /\ r.round = call.round
    BY <1>1, <1>2 DEF Request, Stages, InLoop, Entry
  <2>2. Become(c, r) /\ UNCHANGED <<ready, redis, memory, history>>
    BY <1>8 DEF Render
  <2> HIDE DEF r
  <2> QED BY <1>5, <2>1, <2>2
<1>9. ASSUME Set(c) PROVE TypeInv'
  <2> DEFINE r == [call EXCEPT !.pc = IF Client(c) THEN "redisSet" ELSE "memorySet",
                               !.tags = TagsOf[call.key]]
  <2>1. TagsOf[call.key] \in SUBSET Tags
    BY <1>1, TagsOfAssumption
  <2>2. r \in Request /\ r.pc \notin InLoop /\ r.round = call.round
    BY <1>1, <2>1 DEF Request, Stages, InLoop
  <2>3. Become(c, r) /\ UNCHANGED <<ready, redis, memory, history>>
    BY <1>9 DEF Set
  <2> HIDE DEF r
  <2> QED BY <1>5, <2>2, <2>3
<1>10. ASSUME MemorySet(c) PROVE TypeInv'
  <2>1. memory' \in [Pods -> [Keys -> Entry \cup {NoEntry}]]
    BY <1>1, <1>2, <1>10 DEF MemorySet
  <2> QED BY <1>4, <1>10, <2>1 DEF MemorySet
<1>11. ASSUME Delete(c) PROVE TypeInv'
  <2>1. CASE Client(c)
    <3> DEFINE r == [call EXCEPT !.pc = "redisDel"]
    <3>1. r \in Request /\ r.pc \notin InLoop /\ r.round = call.round
      BY <1>1 DEF Request, Stages, InLoop
    <3>2. Become(c, r) /\ UNCHANGED <<ready, redis, memory, history>>
      BY <1>11, <2>1 DEF Delete, Goto
    <3> HIDE DEF r
    <3> QED BY <1>5, <3>1, <3>2
  <2>2. CASE ~Client(c)
    <3>1. memory' = [memory EXCEPT ![call.pod][call.key] = NoEntry] /\ Become(c, Idle)
      BY <1>11, <2>2 DEF Delete, Forget
    <3>2. memory' \in [Pods -> [Keys -> Entry \cup {NoEntry}]]
      BY <1>1, <1>2, <3>1
    <3> QED BY <1>4, <1>11, <3>1, <3>2 DEF Delete
  <2> QED BY <2>1, <2>2
<1> QED BY <1>6, <1>7, <1>8, <1>9, <1>10, <1>11

\* After an SADD, and after the SET, the call is at its next tag or at memorySet.
LEMMA AfterSaddIs ==
  ASSUME TypeInv, NEW c \in Calls, NEW ts \in SUBSET Tags
  PROVE  /\ AfterSadd(c, ts) \in Request
         /\ AfterSadd(c, ts).pc = IF ts = {} THEN "memorySet" ELSE "redisSadd"
         /\ AfterSadd(c, ts).tags = ts
         /\ AfterSadd(c, ts).key = req[c].key
         /\ AfterSadd(c, ts).held = req[c].held
         /\ AfterSadd(c, ts).round = req[c].round
<1>1. req[c] \in Request
  BY DEF TypeInv, TypeOK
<1> QED BY <1>1 DEF AfterSadd, Request, Stages

\* After a DEL of a key, the call is at its next key or at the tag set.
LEMMA AfterDelIs ==
  ASSUME TypeInv, NEW c \in Calls, NEW ks \in SUBSET Keys
  PROVE  /\ AfterDel(c, ks) \in Request
         /\ AfterDel(c, ks).pc = IF ks = {} THEN "delTag" ELSE "delKeys"
         /\ AfterDel(c, ks).keys = ks
         /\ AfterDel(c, ks).tag = req[c].tag
         /\ AfterDel(c, ks).round = req[c].round
<1>1. req[c] \in Request
  BY DEF TypeInv, TypeOK
<1> QED BY <1>1 DEF AfterDel, Request, Stages

\* What Spare adds to the calls of revalidateTag, and that it adds keys only.
LEMMA Spares ==
  ASSUME TypeInv, NEW k \in Keys, NEW ts, Spare(k, ts)
  PROVE  /\ spared' \in [Calls -> SUBSET Keys]
         /\ \A c \in Calls :
              /\ spared[c] \subseteq spared'[c]
              /\ (req[c].pc \in {"delKeys", "delTag"} /\ req[c].tag \in ts) => k \in spared'[c]
  BY DEF Spare, TypeInv, TypeOK

\* The pipeline of set, the DELs of set(null), and what expires.
LEMMA StoreType ==
  ASSUME TypeInv, NEW c \in Calls,
         RedisSet(c) \/ RedisSadd(c) \/ RedisDel(c) \/ (Fail(c) /\ (FailGet(c) \/ FailSet(c)))
  PROVE  TypeInv'
<1> DEFINE call == req[c]
<1>1. /\ call \in Request /\ call.key \in Keys /\ call.pod \in Pods
      /\ call.held \in Entry \cup {NoEntry} /\ call.tags \in SUBSET Tags
      /\ \A t \in Tags : call.round[t] <= asked[t]
  BY DEF TypeInv, TypeOK, Request
<1>2. /\ cache \in [Keys -> Entry \cup {NoEntry}]
      /\ tagKeys \in [Tags -> SUBSET Keys]
      /\ memory \in [Pods -> [Keys -> Entry \cup {NoEntry}]]
      /\ unmapped \subseteq Keys \X Tags /\ spared \in [Calls -> SUBSET Keys]
      /\ missed \in [Keys -> [Tags -> Causes]]
      /\ asked \in [Tags -> Nat]
  BY BoundAssumption DEF TypeInv, TypeOK
<1>3. \A t \in Tags : Idle.round[t] <= asked[t]
  BY <1>2, IdleIsRequest
<1>4. ASSUME RedisSet(c) PROVE TypeInv'
  <2> DEFINE r == AfterSadd(c, call.tags)
  <2>1. r \in Request /\ r.pc \notin InLoop /\ r.round = call.round
    BY <1>1, AfterSaddIs DEF InLoop
  <2>2. cache' \in [Keys -> Entry \cup {NoEntry}] /\ unmapped' \subseteq Keys \X Tags
    BY <1>1, <1>2, <1>4 DEF RedisSet
  <2>3. missed' \in [Keys -> [Tags -> Causes]]
    BY <1>1, <1>2, <1>4 DEF RedisSet, Causes
  <2>4. Become(c, r) /\ UNCHANGED <<ready, tagKeys, memory, asked, acked>>
    BY <1>4 DEF RedisSet
  <2>5. spared' \in [Calls -> SUBSET Keys]
    BY <1>1, <1>4, Spares DEF RedisSet
  <2> HIDE DEF r
  <2> QED BY <1>1, <1>2, <2>1, <2>2, <2>3, <2>4, <2>5, TypeStep
<1>5. ASSUME RedisSadd(c) PROVE TypeInv'
  <2>1. PICK t \in call.tags :
          /\ tagKeys' = [tagKeys EXCEPT ![t] = @ \cup {call.key}]
          /\ unmapped' = unmapped \ {<<call.key, t>>}
          /\ Spare(call.key, {t})
          /\ Become(c, AfterSadd(c, call.tags \ {t}))
    BY <1>5 DEF RedisSadd
  <2> DEFINE r == AfterSadd(c, call.tags \ {t})
  <2>2. r \in Request /\ r.pc \notin InLoop /\ r.round = call.round
    BY <1>1, AfterSaddIs DEF InLoop
  <2>3. tagKeys' \in [Tags -> SUBSET Keys] /\ unmapped' \subseteq Keys \X Tags
    BY <1>1, <1>2, <2>1
  <2>4. Become(c, r) /\ UNCHANGED <<ready, cache, memory, asked, acked, missed>>
    BY <1>5, <2>1 DEF RedisSadd
  <2>5. spared' \in [Calls -> SUBSET Keys]
    BY <1>1, <2>1, Spares
  <2> HIDE DEF r
  <2> QED BY <1>1, <1>2, <2>2, <2>3, <2>4, <2>5, TypeStep
<1>6. ASSUME RedisDel(c) PROVE TypeInv'
  <2>1. /\ Drop(call.key) /\ memory' = [memory EXCEPT ![call.pod][call.key] = NoEntry]
        /\ Become(c, Idle) /\ UNCHANGED <<ready, tagKeys, asked, acked, unmapped, spared>>
    BY <1>6 DEF RedisDel, Forget
  <2>2. /\ cache' \in [Keys -> Entry \cup {NoEntry}]
        /\ missed' \in [Keys -> [Tags -> Causes]]
    BY <1>1, <2>1, DropType
  <2>3. memory' \in [Pods -> [Keys -> Entry \cup {NoEntry}]]
    BY <1>1, <1>2, <2>1
  <2> QED BY <1>2, <1>3, <2>1, <2>2, <2>3, IdleIsRequest, TypeStep DEF InLoop
<1>7. ASSUME Fail(c), FailGet(c) PROVE TypeInv'
  <2> DEFINE r == [call EXCEPT !.pc = "render"]
  <2>1. r \in Request /\ r.pc \notin InLoop /\ r.round = call.round
    BY <1>1 DEF Request, Stages, InLoop
  <2>2. Become(c, r) /\ UNCHANGED <<ready, redis, memory, history>>
    BY <1>7 DEF Fail, FailGet, history
  <2> HIDE DEF r
  <2> QED BY <1>1, <1>2, <2>1, <2>2, TypeStep DEF redis, history
<1>8. ASSUME Fail(c), FailSet(c) PROVE TypeInv'
  <2>1. UNCHANGED <<ready, cache, tagKeys, memory, asked, acked, spared, missed>>
    BY <1>8 DEF Fail, FailSet, redis
  <2>2. ASSUME NEW ts \in SUBSET Tags, Become(c, AfterSadd(c, ts)),
               unmapped' \subseteq Keys \X Tags
        PROVE  TypeInv'
    <3> DEFINE r == AfterSadd(c, ts)
    <3>1. r \in Request /\ r.pc \notin InLoop /\ r.round = call.round
      BY AfterSaddIs DEF InLoop
    <3>2. Become(c, r)
      BY <2>2
    <3> HIDE DEF r
    <3> QED BY <1>1, <1>2, <2>1, <2>2, <3>1, <3>2, TypeStep
  <2>3. CASE Become(c, AfterSadd(c, call.tags)) /\ UNCHANGED unmapped
    BY <1>1, <1>2, <2>2, <2>3
  <2>4. CASE \E t \in call.tags :
               /\ unmapped' = IF call.key \in tagKeys[t]
                                  THEN unmapped ELSE unmapped \cup {<<call.key, t>>}
               /\ Become(c, AfterSadd(c, call.tags \ {t}))
    <3>1. PICK t \in call.tags :
               /\ unmapped' = IF call.key \in tagKeys[t]
                                  THEN unmapped ELSE unmapped \cup {<<call.key, t>>}
               /\ Become(c, AfterSadd(c, call.tags \ {t}))
      BY <2>4
    <3>2. unmapped' \subseteq Keys \X Tags /\ call.tags \ {t} \in SUBSET Tags
      BY <1>1, <1>2, <3>1
    <3> QED BY <2>2, <3>1, <3>2
  <2>5. CASE Become(c, Idle) /\ UNCHANGED unmapped
    BY <1>2, <1>3, <2>1, <2>5, IdleIsRequest, TypeStep DEF InLoop
  <2> QED BY <1>8, <2>3, <2>4, <2>5 DEF FailSet
<1> QED BY <1>4, <1>5, <1>6, <1>7, <1>8

\* A step of revalidateTag: it may acknowledge.
LEMMA LoopType ==
  ASSUME TypeInv, NEW c \in Calls, NEW r \in Request, Become(c, r),
         UNCHANGED <<ready, tagKeys, asked>>,
         acked' = acked \/ \E ts \in SUBSET Tags : Acknowledge(c, ts),
         r.pc \in InLoop => r.tag \in Tags,
         r = Idle \/ r.round = req[c].round,
         cache' \in [Keys -> Entry \cup {NoEntry}],
         memory' \in [Pods -> [Keys -> Entry \cup {NoEntry}]],
         unmapped' \subseteq Keys \X Tags, spared' \in [Calls -> SUBSET Keys],
         missed' \in [Keys -> [Tags -> Causes]]
  PROVE  TypeInv'
<1>1. req \in [Calls -> Request] /\ asked \in [Tags -> Nat]
  BY BoundAssumption DEF TypeInv, TypeOK
<1>2. /\ req' \in [Calls -> Request]
      /\ req'[c] = r
      /\ \A d \in Calls : d # c => req'[d] = req[d]
  BY <1>1, Becomes
<1>3. acked' \in [Tags -> 0..MaxRevalidations] /\ \A t \in Tags : acked'[t] <= asked'[t]
  <2>1. CASE acked' = acked
    BY <2>1 DEF TypeInv, TypeOK
  <2>2. CASE \E ts \in SUBSET Tags : Acknowledge(c, ts)
    BY <2>2, AcknowledgeType
  <2> QED BY <2>1, <2>2
<1>4. \A t \in Tags : r.round[t] <= asked[t]
  BY <1>1, IdleIsRequest DEF TypeInv
<1> QED BY <1>2, <1>3, <1>4 DEF TypeInv, TypeOK

LEMMA RevalidateType ==
  ASSUME TypeInv, NEW c \in Calls, Revalidate(c) \/ Smembers(c) \/ DelKey(c)
  PROVE  TypeInv'
<1> DEFINE call == req[c]
<1>1. /\ call \in Request /\ call.key \in Keys /\ call.pod \in Pods
      /\ call.tags \in SUBSET Tags /\ call.keys \in SUBSET Keys
      /\ call.pc \in InLoop => call.tag \in Tags
  BY DEF TypeInv, TypeOK, Request
<1>2. /\ cache \in [Keys -> Entry \cup {NoEntry}]
      /\ tagKeys \in [Tags -> SUBSET Keys]
      /\ memory \in [Pods -> [Keys -> Entry \cup {NoEntry}]]
      /\ unmapped \subseteq Keys \X Tags /\ spared \in [Calls -> SUBSET Keys]
      /\ missed \in [Keys -> [Tags -> Causes]]
  BY DEF TypeInv, TypeOK
<1>3. Idle.pc \notin InLoop
  BY IdleIsRequest DEF InLoop
<1>4. ASSUME Revalidate(c) PROVE TypeInv'
  <2>1. UNCHANGED <<ready, cache, tagKeys, asked, unmapped, spared>>
    BY <1>4 DEF Revalidate, redis
  <2>2. CASE Client(c)
    <3>1. NextTag(c) /\ UNCHANGED <<memory, acked, missed>>
      BY <1>4, <2>2 DEF Revalidate
    <3>2. PICK r \in Request :
            /\ Become(c, r)
            /\ \/ r = Idle
               \/ r.pc = "smembers" /\ r.tag \in call.tags /\ r.round = call.round
      BY <3>1, NextTagLeads
    <3> QED BY <1>1, <1>2, <1>3, <2>1, <3>1, <3>2, LoopType
  <2>3. CASE ~Client(c)
    <3>1. /\ memory' = [memory EXCEPT ![call.pod] =
                           [k \in Keys |-> IF TagsOf[k] \cap call.tags # {} THEN NoEntry ELSE @[k]]]
          /\ Blame(Targets(c, call.tags), "fault")
          /\ Acknowledge(c, call.tags)
          /\ Become(c, Idle)
      BY <1>4, <2>3 DEF Revalidate
    <3>2. memory' \in [Pods -> [Keys -> Entry \cup {NoEntry}]]
      BY <1>1, <1>2, <3>1
    <3>3. missed' \in [Keys -> [Tags -> Causes]]
      BY <3>1, BlameType DEF Causes
    <3> QED BY <1>1, <1>2, <1>3, <2>1, <3>1, <3>2, <3>3, IdleIsRequest, LoopType
  <2> QED BY <2>2, <2>3
<1>5. ASSUME Smembers(c) PROVE TypeInv'
  <2> DEFINE t == call.tag
  <2>1. t \in Tags
    BY <1>1, <1>5 DEF Smembers, At, InLoop
  <2>2. UNCHANGED <<ready, cache, tagKeys, memory, asked, unmapped, spared>>
    BY <1>5 DEF Smembers, redis
  <2>3. missed' \in [Keys -> [Tags -> Causes]]
    BY <1>5, BlameType DEF Smembers, Causes
  <2>4. CASE tagKeys[t] = {}
    <3>1. NextTag(c) /\ Acknowledge(c, {t})
      BY <1>5, <2>4 DEF Smembers
    <3>2. PICK r \in Request :
            /\ Become(c, r)
            /\ \/ r = Idle
               \/ r.pc = "smembers" /\ r.tag \in call.tags /\ r.round = call.round
      BY <3>1, NextTagLeads
    <3>3. {t} \in SUBSET Tags
      BY <2>1
    <3> QED BY <1>1, <1>2, <1>3, <2>2, <2>3, <3>1, <3>2, <3>3, LoopType
  <2>5. CASE tagKeys[t] # {}
    <3> DEFINE r == [call EXCEPT !.pc = "delKeys", !.keys = tagKeys[t]]
    <3>1. Become(c, r) /\ UNCHANGED acked
      BY <1>5, <2>5 DEF Smembers
    <3>2. r \in Request /\ r.tag = t /\ r.round = call.round
      BY <1>1, <1>2, <2>1 DEF Request, Stages
    <3> HIDE DEF r
    <3> QED BY <1>2, <2>1, <2>2, <2>3, <3>1, <3>2, LoopType
  <2> QED BY <2>4, <2>5
<1>6. ASSUME DelKey(c) PROVE TypeInv'
  <2>1. PICK k \in call.keys : Drop(k) /\ Become(c, AfterDel(c, call.keys \ {k}))
    BY <1>6 DEF DelKey
  <2> DEFINE r == AfterDel(c, call.keys \ {k})
  <2>2. r \in Request /\ r.tag = call.tag /\ r.round = call.round
    BY <1>1, AfterDelIs
  <2>3. call.tag \in Tags
    BY <1>1, <1>6 DEF DelKey, At, InLoop
  <2>4. cache' \in [Keys -> Entry \cup {NoEntry}] /\ missed' \in [Keys -> [Tags -> Causes]]
    BY <1>1, <2>1, DropType
  <2>5. Become(c, r) /\ UNCHANGED <<ready, tagKeys, memory, asked, acked, unmapped, spared>>
    BY <1>6, <2>1 DEF DelKey
  <2> HIDE DEF r
  <2> QED BY <1>2, <2>2, <2>3, <2>4, <2>5, LoopType
<1> QED BY <1>4, <1>5, <1>6

LEMMA FailRevalidationType ==
  ASSUME TypeInv, NEW c \in Calls, Fail(c), FailRevalidation(c)
  PROVE  TypeInv'
<1> DEFINE call == req[c]
<1>1. /\ call \in Request /\ call.tags \in SUBSET Tags /\ call.keys \in SUBSET Keys
      /\ call.pc \in InLoop => call.tag \in Tags
  BY DEF TypeInv, TypeOK, Request
<1>2. /\ cache' \in [Keys -> Entry \cup {NoEntry}]
      /\ memory' \in [Pods -> [Keys -> Entry \cup {NoEntry}]]
      /\ unmapped' \subseteq Keys \X Tags
      /\ missed \in [Keys -> [Tags -> Causes]]
      /\ UNCHANGED <<ready, tagKeys, asked>>
      /\ spared \in [Calls -> SUBSET Keys]
  BY DEF TypeInv, TypeOK, Fail, FailRevalidation, redis
<1>2a. spared' \in [Calls -> SUBSET Keys]
  <2>1. \/ UNCHANGED spared
        \/ spared' = [spared EXCEPT ![c] = {}]
        \/ \E k \in call.keys : spared' = [spared EXCEPT ![c] = @ \cup {k}]
    BY DEF FailRevalidation
  <2> QED BY <1>1, <1>2, <2>1
<1>3. Idle.pc \notin InLoop
  BY IdleIsRequest DEF InLoop
<1>4. CASE At(c, "smembers")
  <2> DEFINE ts == call.tags \cup {call.tag}
  <2>1. Blame(Targets(c, ts), "fault") /\ Acknowledge(c, ts) /\ Become(c, Idle)
    BY <1>4 DEF FailRevalidation, At
  <2>2. ts \in SUBSET Tags
    BY <1>1, <1>4 DEF At, InLoop
  <2>3. missed' \in [Keys -> [Tags -> Causes]]
    BY <2>1, BlameType DEF Causes
  <2> HIDE DEF ts
  <2> QED BY <1>2, <1>2a, <1>3, <2>1, <2>2, <2>3, IdleIsRequest, LoopType
<1>5. CASE At(c, "delKeys")
  <2>1. UNCHANGED acked
    BY <1>5 DEF FailRevalidation, At
  <2>2. PICK k \in call.keys :
          /\ Blame({x \in Targets(c, {call.tag}) : x[1] = k}, "fault")
          /\ Become(c, AfterDel(c, call.keys \ {k}))
    BY <1>5 DEF FailRevalidation, At
  <2> DEFINE r == AfterDel(c, call.keys \ {k})
  <2>3. r \in Request /\ r.tag = call.tag /\ r.round = call.round
    BY <1>1, AfterDelIs
  <2>4. call.tag \in Tags /\ missed' \in [Keys -> [Tags -> Causes]]
    BY <1>1, <1>5, <2>2, BlameType DEF At, InLoop, Causes
  <2>5. Become(c, r)
    BY <2>2
  <2> HIDE DEF r
  <2> QED BY <1>2, <1>2a, <2>1, <2>3, <2>4, <2>5, LoopType
<1>6. CASE At(c, "delTag")
  <2>1. NextTag(c) /\ Acknowledge(c, {call.tag}) /\ UNCHANGED missed
    BY <1>6 DEF FailRevalidation, At
  <2>2. PICK r \in Request :
          /\ Become(c, r)
          /\ \/ r = Idle
             \/ r.pc = "smembers" /\ r.tag \in call.tags /\ r.round = call.round
    BY <2>1, NextTagLeads
  <2>3. {call.tag} \in SUBSET Tags
    BY <1>1, <1>6 DEF At, InLoop
  <2> QED BY <1>1, <1>2, <1>2a, <1>3, <2>1, <2>2, <2>3, LoopType
<1> QED BY <1>4, <1>5, <1>6 DEF FailRevalidation

LEMMA DelTagType ==
  ASSUME TypeInv, NEW c \in Calls, DelTag(c)
  PROVE  TypeInv'
<1> DEFINE call == req[c]  t == call.tag
<1>1. /\ call \in Request /\ call.tags \in SUBSET Tags /\ t \in Tags
      /\ req \in [Calls -> Request] /\ asked \in [Tags -> Nat]
  BY BoundAssumption DEF TypeInv, TypeOK, Request, DelTag, At, InLoop
<1>2. /\ tagKeys' = [tagKeys EXCEPT ![t] = {}]
      /\ unmapped' = unmapped \cup {<<k, t>> : k \in {j \in tagKeys[t] \cap spared[c] : ~Mapping(j, t)}}
      /\ spared' = [spared EXCEPT ![c] = {}]
      /\ Acknowledge(c, {t}) /\ NextTag(c)
      /\ UNCHANGED <<ready, cache, memory, asked, missed>>
  BY DEF DelTag
<1>3. /\ tagKeys' \in [Tags -> SUBSET Keys] /\ unmapped' \subseteq Keys \X Tags
      /\ spared' \in [Calls -> SUBSET Keys]
  BY <1>1, <1>2 DEF TypeInv, TypeOK
<1>4. acked' \in [Tags -> 0..MaxRevalidations] /\ \A u \in Tags : acked'[u] <= asked'[u]
  <2>1. {t} \in SUBSET Tags
    BY <1>1
  <2> QED BY <1>2, <2>1, AcknowledgeType
<1>5. PICK r \in Request :
        /\ Become(c, r)
        /\ \/ r = Idle
           \/ r.pc = "smembers" /\ r.tag \in call.tags /\ r.round = call.round
  BY <1>2, NextTagLeads
<1>6. /\ req' \in [Calls -> Request]
      /\ req'[c] = r
      /\ \A d \in Calls : d # c => req'[d] = req[d]
  BY <1>1, <1>5, Becomes
<1>7. \A u \in Tags : r.round[u] <= asked[u]
  BY <1>1, <1>5, IdleIsRequest DEF TypeInv
<1>8. r.pc \in InLoop => r.tag \in Tags
  BY <1>1, <1>5, IdleIsRequest DEF InLoop
<1> QED BY <1>2, <1>3, <1>4, <1>6, <1>7, <1>8 DEF TypeInv, TypeOK

\* A call begins.
LEMMA StartType ==
  ASSUME TypeInv, NEW c \in Calls, NEW o \in Pods,
         \/ \E k \in Keys : StartGet(c, o, k) \/ StartDelete(c, o, k)
         \/ \E ts \in SUBSET Tags \ {{}} : StartRevalidation(c, o, ts)
  PROVE  TypeInv'
<1>1. /\ req \in [Calls -> Request] /\ asked \in [Tags -> Nat] /\ acked \in [Tags -> Nat]
      /\ \A t \in Tags : asked[t] <= MaxRevalidations
  BY BoundAssumption DEF TypeInv, TypeOK
<1>2. Idle \in Request /\ \A t \in Tags : Idle.round[t] <= asked[t]
  BY <1>1, IdleIsRequest
<1>3. ASSUME NEW k \in Keys, StartGet(c, o, k) PROVE TypeInv'
  <2> DEFINE r == [Idle EXCEPT !.pc = "get", !.pod = o, !.key = k, !.round = acked]
  <2>1. r \in Request /\ r.pc \notin InLoop /\ r.round = acked
    BY <1>1, <1>2, <1>3 DEF Request, Stages, InLoop
  <2>2. Become(c, r) /\ UNCHANGED <<ready, redis, memory, history>>
    BY <1>3 DEF StartGet
  <2>3. \A t \in Tags : r.round[t] <= asked[t]
    BY <2>1 DEF TypeInv
  <2> HIDE DEF r
  <2> QED BY <2>1, <2>2, <2>3, TypeStep DEF redis, history, TypeInv, TypeOK
<1>4. ASSUME NEW k \in Keys, StartDelete(c, o, k) PROVE TypeInv'
  <2> DEFINE r == [Idle EXCEPT !.pc = "delete", !.pod = o, !.key = k]
  <2>1. r \in Request /\ r.pc \notin InLoop /\ r.round = Idle.round
    BY <1>2, <1>4 DEF Request, Stages, InLoop
  <2>2. Become(c, r) /\ UNCHANGED <<ready, redis, memory, history>>
    BY <1>4 DEF StartDelete
  <2> HIDE DEF r
  <2> QED BY <1>2, <2>1, <2>2, TypeStep DEF redis, history, TypeInv, TypeOK
<1>5. ASSUME NEW ts \in SUBSET Tags, StartRevalidation(c, o, ts) PROVE TypeInv'
  <2>1. /\ asked' = [t \in Tags |-> IF t \in ts THEN asked[t] + 1 ELSE asked[t]]
        /\ \A t \in ts : asked[t] < MaxRevalidations
        /\ UNCHANGED <<ready, redis, memory, acked, unmapped, spared, missed>>
    BY <1>5 DEF StartRevalidation
  <2>2. /\ asked' \in [Tags -> 0..MaxRevalidations]
        /\ asked' \in [Tags -> Nat]
        /\ \A t \in Tags : asked[t] <= asked'[t] /\ asked'[t] \in Nat
    BY <1>1, <2>1, BoundAssumption
  <2> DEFINE r == [Idle EXCEPT !.pc = "revalidate", !.pod = o, !.tags = ts, !.round = asked']
  <2>3. r \in Request /\ r.pc \notin InLoop /\ r.round = asked'
    BY <1>2, <1>5, <2>2 DEF Request, Stages, InLoop
  <2>4. Become(c, r)
    BY <1>5 DEF StartRevalidation
  <2> HIDE DEF r
  <2>5. /\ req' \in [Calls -> Request]
        /\ req'[c] = r
        /\ \A d \in Calls : d # c => req'[d] = req[d]
    BY <1>1, <2>3, <2>4, Becomes
  <2>6. \A d \in Calls : \A t \in Tags : req'[d].round[t] <= asked'[t]
    <3> SUFFICES ASSUME NEW d \in Calls, NEW t \in Tags PROVE req'[d].round[t] <= asked'[t]
      OBVIOUS
    <3>1. CASE d = c
      BY <2>2, <2>3, <2>5, <3>1
    <3>2. CASE d # c
      <4>1. req[d].round[t] <= asked[t] /\ req[d].round[t] \in Nat /\ asked[t] \in Nat
        BY <1>1 DEF TypeInv, Request
      <4> QED BY <2>2, <2>5, <3>2, <4>1
    <3> QED BY <3>1, <3>2
  <2>7. \A t \in Tags : acked'[t] <= asked'[t]
    <3> SUFFICES ASSUME NEW t \in Tags PROVE acked[t] <= asked'[t]
      BY <2>1
    <3>1. acked[t] <= asked[t] /\ acked[t] \in Nat /\ asked[t] \in Nat
      BY <1>1 DEF TypeInv
    <3> QED BY <2>2, <3>1
  <2> QED BY <2>1, <2>2, <2>3, <2>5, <2>6, <2>7 DEF TypeInv, TypeOK, redis
<1> QED BY <1>3, <1>4, <1>5

\* What a call that begins becomes.
LEMMA Starts ==
  ASSUME TypeInv, NEW c \in Calls, NEW o \in Pods,
         \/ \E k \in Keys : StartGet(c, o, k) \/ StartDelete(c, o, k)
         \/ \E ts \in SUBSET Tags \ {{}} : StartRevalidation(c, o, ts)
  PROVE  /\ req'[c] \in Request /\ Become(c, req'[c])
         /\ req'[c].pc \in {"get", "delete", "revalidate"}
         /\ req'[c].pc = "get" => req'[c].round = acked
<1>1. PICK r :
        /\ Become(c, r)
        /\ \/ \E k \in Keys : \/ r = [Idle EXCEPT !.pc = "get", !.pod = o, !.key = k,
                                                  !.round = acked]
                              \/ r = [Idle EXCEPT !.pc = "delete", !.pod = o, !.key = k]
           \/ \E ts : r = [Idle EXCEPT !.pc = "revalidate", !.pod = o, !.tags = ts,
                                       !.round = asked']
  BY DEF StartGet, StartDelete, StartRevalidation
<1>2. r.pc \in {"get", "delete", "revalidate"} /\ (r.pc = "get" => r.round = acked)
  BY <1>1, IdleIsRequest DEF Request
<1>3. req'[c] = r
  BY <1>1 DEF Become, TypeInv, TypeOK
<1>4. TypeInv'
  BY StartType
<1> QED BY <1>1, <1>2, <1>3, <1>4 DEF TypeInv, TypeOK

\* What a dead pod's calls become.
LEMMA Killed ==
  ASSUME TypeInv, NEW o \in Pods, Kill(o)
  PROVE  /\ req' \in [Calls -> Request]
         /\ \A c \in Calls : req'[c] = IF c \in On(o) THEN Idle ELSE req[c]
  BY IdleIsRequest DEF Kill, On, TypeInv, TypeOK

LEMMA EnvironmentType ==
  ASSUME TypeInv,
         \/ \E o \in Pods : Kill(o) \/ Connect(o) \/ Disconnect(o)
         \/ \E k \in Keys : Expire(k)
  PROVE  TypeInv'
<1>1. asked \in [Tags -> Nat]
  BY BoundAssumption DEF TypeInv, TypeOK
<1>2. ASSUME NEW o \in Pods, Kill(o) PROVE TypeInv'
  <2>1. /\ req' \in [Calls -> Request]
        /\ \A c \in Calls : req'[c] = Idle \/ req'[c] = req[c]
    BY <1>2, Killed
  <2>2. /\ memory' \in [Pods -> [Keys -> Entry \cup {NoEntry}]] /\ unmapped' \subseteq Keys \X Tags
        /\ spared' \in [Calls -> SUBSET Keys]
    BY <1>2 DEF Kill, TypeInv, TypeOK
  <2>3. UNCHANGED <<ready, redis, asked, acked, missed>>
    BY <1>2 DEF Kill
  <2>4. \A c \in Calls : \A t \in Tags : req'[c].round[t] <= asked[t]
    BY <1>1, <2>1, IdleIsRequest DEF TypeInv
  <2>5. \A c \in Calls : req'[c].pc \in InLoop => req'[c].tag \in Tags
    BY <2>1, IdleIsRequest DEF TypeInv, InLoop
  <2> QED BY <2>1, <2>2, <2>3, <2>4, <2>5 DEF TypeInv, TypeOK, redis
<1>3. ASSUME NEW o \in Pods, Connect(o) \/ Disconnect(o) PROVE TypeInv'
  BY <1>3 DEF Connect, Disconnect, TypeInv, TypeOK, redis, history
<1>4. ASSUME NEW k \in Keys, Expire(k) PROVE TypeInv'
  BY <1>4, DropType DEF Expire, TypeInv, TypeOK
<1> QED BY <1>2, <1>3, <1>4

LEMMA TypeInvNext == TypeInv /\ [Next]_vars => TypeInv'
<1> SUFFICES ASSUME TypeInv, [Next]_vars PROVE TypeInv'
  OBVIOUS
<1>1. CASE UNCHANGED vars
  BY <1>1 DEF vars, redis, history, TypeInv, TypeOK
<1>2. ASSUME NEW c \in Calls,
             \/ Get(c) \/ Serve(c) \/ Render(c) \/ Set(c) \/ Throw(c) \/ MemorySet(c) \/ Delete(c)
             \/ RedisSet(c) \/ RedisSadd(c) \/ RedisDel(c)
             \/ Revalidate(c) \/ Smembers(c) \/ DelKey(c) \/ DelTag(c)
      PROVE  TypeInv'
  BY <1>2, GetSetType, StoreType, RevalidateType, DelTagType
<1>3. ASSUME NEW c \in Calls, Fail(c) PROVE TypeInv'
  BY <1>3, StoreType, FailRevalidationType DEF Fail
<1>4. ASSUME NEW c \in Calls, NEW o \in Pods,
             \/ \E k \in Keys : StartGet(c, o, k) \/ StartDelete(c, o, k)
             \/ \E ts \in SUBSET Tags \ {{}} : StartRevalidation(c, o, ts)
      PROVE  TypeInv'
  BY <1>4, StartType
<1>5. ASSUME \/ \E o \in Pods : Kill(o) \/ Connect(o) \/ Disconnect(o)
             \/ \E k \in Keys : Expire(k)
      PROVE  TypeInv'
  BY <1>5, EnvironmentType
<1> QED BY <1>1, <1>2, <1>3, <1>4, <1>5 DEF Next

LEMMA TypeInvariance == Spec => []TypeInv
  BY TypeInvInit, TypeInvNext, PTL DEF Spec

\* The state of the handler has its types in every behaviour: an entry or
\* nothing under each key, keys in the tag sets, no more revalidations
\* acknowledged than the bound (cache-handler.js).
THEOREM HandlerTypes == Spec => []TypeOK
<1>1. TypeInv => TypeOK
  BY DEF TypeInv
<1> QED BY <1>1, TypeInvariance, PTL

----------------------------------------------------------------------------
(* What the DELs of revalidateTag pass over. *)

\* Each entry that the call's tag set lists is still to be deleted, or is spared.
Covered(c) ==
    req[c].pc \in {"delKeys", "delTag"} =>
        /\ req[c].pc = "delTag" => req[c].keys = {}
        /\ \A k \in tagKeys[req[c].tag] :
             cache[k] # NoEntry /\ req[c].tag \in TagsOf[k]
                 => k \in req[c].keys \/ k \in spared[c]

SpareInv == \A c \in Calls : Covered(c)

\* A call that stands still stays covered: what it is to delete was there before,
\* or it is spared.
LEMMA CoveredStays ==
  ASSUME TypeInv, NEW c \in Calls, Covered(c), req'[c] = req[c], spared[c] \subseteq spared'[c],
         \A t \in Tags : \A k \in tagKeys'[t] :
            cache'[k] # NoEntry /\ t \in TagsOf[k] =>
               \/ k \in tagKeys[t] /\ cache[k] # NoEntry
               \/ (req[c].pc \in {"delKeys", "delTag"} /\ req[c].tag = t) => k \in spared'[c]
  PROVE  Covered(c)'
<1>1. req[c].pc \in {"delKeys", "delTag"} => req[c].tag \in Tags
  BY DEF TypeInv, InLoop
<1> QED BY <1>1 DEF Covered

\* A step of one call that stores nothing and adds nothing to the tag sets.
LEMMA CoveredStep ==
  ASSUME TypeInv, SpareInv, NEW c \in Calls, NEW r \in Request, Become(c, r),
         \A d \in Calls : d # c => spared[d] \subseteq spared'[d],
         \A t \in Tags : tagKeys'[t] \subseteq tagKeys[t],
         \A k \in Keys : cache[k] = NoEntry => cache'[k] = NoEntry,
         r.pc \in {"delKeys", "delTag"} => Covered(c)'
  PROVE  SpareInv'
<1>1. /\ req' \in [Calls -> Request]
      /\ req'[c] = r
      /\ \A d \in Calls : d # c => req'[d] = req[d]
  BY Becomes DEF TypeInv, TypeOK
<1>2. \A t \in Tags : tagKeys[t] \subseteq Keys
  BY DEF TypeInv, TypeOK
<1>3. ASSUME NEW d \in Calls, d # c PROVE Covered(d)'
  BY <1>1, <1>2, <1>3, CoveredStays DEF SpareInv
<1>4. Covered(c)'
  BY <1>1 DEF Covered
<1> QED BY <1>3, <1>4 DEF SpareInv

\* The steps that leave the tag sets and what is spared alone, and after which the
\* call is not deleting.
LEMMA QuietCovered ==
  ASSUME TypeInv, SpareInv, NEW c \in Calls, NEW r \in Request, Become(c, r),
         r.pc \notin {"delKeys", "delTag"}, UNCHANGED <<tagKeys, spared>>,
         \A k \in Keys : cache[k] = NoEntry => cache'[k] = NoEntry
  PROVE  SpareInv'
  BY CoveredStep

\* DEL of a key leaves the others.
LEMMA DropEmpties ==
  ASSUME TypeInv, NEW k \in Keys, Drop(k)
  PROVE  \A j \in Keys : cache'[j] = IF j = k THEN NoEntry ELSE cache[j]
  BY DEF Drop, TypeInv, TypeOK

LEMMA GetSetCovered ==
  ASSUME TypeInv, SpareInv, NEW c \in Calls,
         \/ Get(c) \/ Serve(c) \/ Render(c) \/ Set(c) \/ Throw(c) \/ MemorySet(c)
         \/ Delete(c) \/ RedisDel(c) \/ Revalidate(c)
         \/ (Fail(c) /\ (FailGet(c) \/ FailSet(c)))
  PROVE  SpareInv'
<1> DEFINE call == req[c]
<1>1. /\ call \in Request /\ call.key \in Keys /\ Idle \in Request /\ Idle.pc = "idle"
      /\ call.tags \in SUBSET Tags
  BY IdleIsRequest DEF TypeInv, TypeOK, Request
<1>2. UNCHANGED <<tagKeys, spared>>
  BY DEF Get, Serve, Render, Set, Throw, MemorySet, Delete, RedisDel, Revalidate, Fail, FailGet,
         FailSet, redis, history
<1>3. \A k \in Keys : cache[k] = NoEntry => cache'[k] = NoEntry
  <2>1. CASE RedisDel(c)
    BY <1>1, <2>1, DropEmpties DEF RedisDel
  <2>2. CASE UNCHANGED cache
    BY <2>2
  <2> QED BY <2>1, <2>2 DEF Get, Serve, Render, Set, Throw, MemorySet, Delete, Revalidate, Fail,
                            redis
<1>4. \E r \in Request : Become(c, r) /\ r.pc \notin {"delKeys", "delTag"}
  <2>1. TypeInv'
    BY GetSetType, StoreType, RevalidateType
  <2>2. req'[c] \in Request
    BY <2>1 DEF TypeInv, TypeOK
  <2>3. ASSUME NEW r, Become(c, r) PROVE req'[c] = r
    BY <2>3 DEF Become, TypeInv, TypeOK
  <2>4. CASE Get(c)
    <3> DEFINE r == [call EXCEPT !.pc = IF Found(c) = NoEntry THEN "render" ELSE "serve",
                                 !.held = Found(c)]
    <3>1. Become(c, r)
      BY <2>4 DEF Get
    <3>2. r.pc \notin {"delKeys", "delTag"}
      BY <1>1 DEF Request
    <3> HIDE DEF r
    <3> QED BY <2>2, <2>3, <3>1, <3>2
  <2>5. CASE Serve(c) \/ Throw(c) \/ MemorySet(c) \/ RedisDel(c)
    BY <1>1, <2>5 DEF Serve, Throw, MemorySet, RedisDel, Forget
  <2>6. CASE Render(c)
    <3> DEFINE r == [call EXCEPT !.pc = "set", !.held = asked]
    <3>1. Become(c, r) /\ r.pc \notin {"delKeys", "delTag"}
      BY <1>1, <2>6 DEF Render, Request
    <3> HIDE DEF r
    <3> QED BY <2>2, <2>3, <3>1
  <2>7. CASE Set(c)
    <3> DEFINE r == [call EXCEPT !.pc = IF Client(c) THEN "redisSet" ELSE "memorySet",
                                 !.tags = TagsOf[call.key]]
    <3>1. Become(c, r)
      BY <2>7 DEF Set
    <3>2. r.pc \notin {"delKeys", "delTag"}
      BY <1>1 DEF Request
    <3> HIDE DEF r
    <3> QED BY <2>2, <2>3, <3>1, <3>2
  <2>8. CASE Delete(c)
    <3> DEFINE r == [call EXCEPT !.pc = "redisDel"]
    <3>1. Become(c, r) \/ Become(c, Idle)
      BY <2>8 DEF Delete, Goto, Forget
    <3>2. r.pc \notin {"delKeys", "delTag"}
      BY <1>1 DEF Request
    <3> HIDE DEF r
    <3> QED BY <1>1, <2>2, <2>3, <3>1, <3>2
  <2>9. CASE Revalidate(c)
    <3>1. NextTag(c) \/ Become(c, Idle)
      BY <2>9 DEF Revalidate
    <3> QED BY <1>1, <3>1, NextTagLeads
  <2>10. CASE FailGet(c)
    <3> DEFINE r == [call EXCEPT !.pc = "render"]
    <3>1. Become(c, r) /\ r.pc \notin {"delKeys", "delTag"}
      BY <1>1, <2>10 DEF FailGet, Request
    <3> HIDE DEF r
    <3> QED BY <2>2, <2>3, <3>1
  <2>11. CASE FailSet(c)
    <3>1. Become(c, Idle) \/ \E ts \in SUBSET Tags : Become(c, AfterSadd(c, ts))
      BY <1>1, <2>11 DEF FailSet
    <3>2. \A ts \in SUBSET Tags : AfterSadd(c, ts) \in Request
                                  /\ AfterSadd(c, ts).pc \in {"memorySet", "redisSadd"}
      BY AfterSaddIs
    <3> QED BY <1>1, <3>1, <3>2
  <2> QED BY <2>4, <2>5, <2>6, <2>7, <2>8, <2>9, <2>10, <2>11
<1> QED BY <1>2, <1>3, <1>4, QuietCovered

\* SET and SADD spare what they store or add.
LEMMA StoreCovered ==
  ASSUME TypeInv, SpareInv, NEW c \in Calls, RedisSet(c) \/ RedisSadd(c)
  PROVE  SpareInv'
<1> DEFINE call == req[c]  k == call.key
<1>1. /\ call \in Request /\ k \in Keys /\ call.tags \in SUBSET Tags
      /\ req \in [Calls -> Request]
      /\ cache \in [Keys -> Entry \cup {NoEntry}] /\ tagKeys \in [Tags -> SUBSET Keys]
  BY DEF TypeInv, TypeOK, Request
<1>2. PICK ts \in SUBSET Tags :
        /\ Spare(k, ts)
        /\ \A j \in Keys : j # k => cache'[j] = cache[j]
        /\ \A t \in Tags \ ts : tagKeys'[t] = tagKeys[t] /\ (k \in tagKeys[t] /\ t \in TagsOf[k]
                                                           => cache'[k] = cache[k])
        /\ \A t \in Tags : \A j \in tagKeys'[t] : j \in Keys /\ (j # k => j \in tagKeys[t])
  <2>1. CASE RedisSet(c)
    <3>1. TagsOf[k] \in SUBSET Tags
      BY <1>1, TagsOfAssumption
    <3>2. /\ Spare(k, TagsOf[k]) /\ cache' = [cache EXCEPT ![k] = call.held] /\ UNCHANGED tagKeys
      BY <2>1 DEF RedisSet
    <3>3. \A j \in Keys : j # k => cache'[j] = cache[j]
      BY <1>1, <3>2
    <3>4. \A t \in Tags : \A j \in tagKeys'[t] : j \in Keys /\ (j # k => j \in tagKeys[t])
      BY <1>1, <3>2
    <3> QED BY <3>1, <3>2, <3>3, <3>4
  <2>2. CASE RedisSadd(c)
    <3>1. PICK t \in call.tags : Spare(k, {t}) /\ tagKeys' = [tagKeys EXCEPT ![t] = @ \cup {k}]
      BY <2>2 DEF RedisSadd
    <3>2. UNCHANGED cache /\ {t} \in SUBSET Tags
      BY <1>1, <2>2 DEF RedisSadd
    <3>3. \A u \in Tags \ {t} : tagKeys'[u] = tagKeys[u]
      BY <1>1, <3>1
    <3>4. \A u \in Tags : \A j \in tagKeys'[u] : j \in Keys /\ (j # k => j \in tagKeys[u])
      BY <1>1, <3>1
    <3> QED BY <3>1, <3>2, <3>3, <3>4
  <2> QED BY <2>1, <2>2
<1>3. \A d \in Calls :
        /\ spared[d] \subseteq spared'[d]
        /\ (req[d].pc \in {"delKeys", "delTag"} /\ req[d].tag \in ts) => k \in spared'[d]
  BY <1>1, <1>2, Spares
<1>4. PICK r \in Request : Become(c, r) /\ r.pc \in {"memorySet", "redisSadd"}
  <2>1. \E us \in SUBSET Tags : Become(c, AfterSadd(c, us))
    BY <1>1 DEF RedisSet, RedisSadd
  <2> QED BY <2>1, AfterSaddIs
<1>5. req'[c] = r /\ \A d \in Calls : d # c => req'[d] = req[d]
  BY <1>1, <1>4, Becomes
<1>6. ASSUME NEW d \in Calls, d # c PROVE Covered(d)'
  <2>1. ASSUME NEW t \in Tags, NEW j \in tagKeys'[t], cache'[j] # NoEntry, t \in TagsOf[j]
        PROVE  \/ j \in tagKeys[t] /\ cache[j] # NoEntry
               \/ (req[d].pc \in {"delKeys", "delTag"} /\ req[d].tag = t) => j \in spared'[d]
    <3>1. CASE j # k
      BY <1>2, <2>1, <3>1
    <3>2. CASE j = k /\ t \in ts
      BY <1>3, <3>2
    <3>3. CASE j = k /\ t \notin ts
      BY <1>2, <2>1, <3>3
    <3> QED BY <3>1, <3>2, <3>3
  <2>2. Covered(d) /\ req'[d] = req[d] /\ spared[d] \subseteq spared'[d]
    BY <1>3, <1>5, <1>6 DEF SpareInv
  <2> QED BY <2>1, <2>2, CoveredStays
<1>7. Covered(c)'
  BY <1>4, <1>5 DEF Covered
<1> QED BY <1>6, <1>7 DEF SpareInv

\* revalidateTag inside its loop: what SMEMBERS lists is to be deleted, and a DEL
\* removes an entry or spares it.
LEMMA LoopCovered ==
  ASSUME TypeInv, SpareInv, NEW c \in Calls,
         Smembers(c) \/ DelKey(c) \/ DelTag(c) \/ (Fail(c) /\ FailRevalidation(c))
  PROVE  SpareInv'
<1> DEFINE call == req[c]  t == call.tag
<1>1. /\ call \in Request /\ call.keys \in SUBSET Keys /\ t \in Tags
      /\ tagKeys \in [Tags -> SUBSET Keys] /\ spared \in [Calls -> SUBSET Keys]
      /\ req \in [Calls -> Request] /\ cache \in [Keys -> Entry \cup {NoEntry}]
      /\ Idle \in Request /\ Idle.pc = "idle"
  BY IdleIsRequest DEF TypeInv, TypeOK, Request, Smembers, DelKey, DelTag, FailRevalidation, At, InLoop
<1>2. ASSUME NextTag(c) \/ Become(c, Idle), \A d \in Calls : d # c => spared[d] \subseteq spared'[d],
             \A u \in Tags : tagKeys'[u] \subseteq tagKeys[u], UNCHANGED cache
      PROVE  SpareInv'
  <2>1. PICK r \in Request : Become(c, r) /\ r.pc \in {"idle", "smembers"}
    BY <1>1, <1>2, NextTagLeads
  <2> QED BY <1>2, <2>1, CoveredStep
<1>3. CASE Smembers(c)
  <2>1. UNCHANGED <<tagKeys, spared, cache>>
    BY <1>3 DEF Smembers, redis
  <2>2. CASE tagKeys[t] = {}
    BY <1>2, <1>3, <2>1, <2>2 DEF Smembers
  <2>3. CASE tagKeys[t] # {}
    <3> DEFINE r == [call EXCEPT !.pc = "delKeys", !.keys = tagKeys[t]]
    <3>1. r \in Request /\ r.pc = "delKeys" /\ r.keys = tagKeys[t] /\ r.tag = t
      BY <1>1 DEF Request, Stages
    <3>2. Become(c, r)
      BY <1>3, <2>3 DEF Smembers
    <3> HIDE DEF r
    <3>3. req'[c] = r
      BY <1>1, <3>1, <3>2, Becomes
    <3>4. Covered(c)'
      BY <2>1, <3>1, <3>3 DEF Covered
    <3> QED BY <2>1, <3>1, <3>2, <3>4, CoveredStep
  <2> QED BY <2>2, <2>3
<1>4. ASSUME NEW k \in call.keys, At(c, "delKeys"), Become(c, AfterDel(c, call.keys \ {k})),
             UNCHANGED tagKeys,
             \/ Drop(k) /\ UNCHANGED spared
             \/ UNCHANGED cache /\ spared' = [spared EXCEPT ![c] = @ \cup {k}]
      PROVE  SpareInv'
  <2> DEFINE r == AfterDel(c, call.keys \ {k})
  <2>1. /\ r \in Request /\ r.tag = t /\ r.keys = call.keys \ {k}
        /\ r.pc = IF r.keys = {} THEN "delTag" ELSE "delKeys"
    BY <1>1, AfterDelIs
  <2>2. Become(c, r)
    BY <1>4
  <2> HIDE DEF r
  <2>3. req'[c] = r
    BY <1>1, <2>1, <2>2, Becomes
  <2>4. /\ \A j \in Keys : cache[j] = NoEntry => cache'[j] = NoEntry
        /\ cache'[k] = NoEntry \/ k \in spared'[c]
        /\ \A d \in Calls : spared[d] \subseteq spared'[d]
    BY <1>1, <1>4, DropEmpties
  <2>5. Covered(c)'
    <3>1. ASSUME NEW j \in tagKeys'[t], cache'[j] # NoEntry, t \in TagsOf[j]
          PROVE  j \in r.keys \/ j \in spared'[c]
      <4>1. j \in Keys /\ j \in tagKeys[t] /\ cache[j] # NoEntry
        BY <1>1, <1>4, <2>4, <3>1
      <4>2. j \in call.keys \/ j \in spared[c]
        BY <1>4, <3>1, <4>1 DEF SpareInv, Covered, At
      <4> QED BY <2>1, <2>4, <3>1, <4>2
    <3> QED BY <2>1, <2>3, <3>1 DEF Covered
  <2> QED BY <1>4, <2>1, <2>2, <2>4, <2>5, CoveredStep
<1>5. CASE DelKey(c)
  BY <1>4, <1>5 DEF DelKey
<1>6. CASE DelTag(c)
  <2>1. /\ NextTag(c) /\ UNCHANGED cache /\ tagKeys' = [tagKeys EXCEPT ![t] = {}]
        /\ spared' = [spared EXCEPT ![c] = {}]
    BY <1>6 DEF DelTag
  <2>2. /\ \A u \in Tags : tagKeys'[u] \subseteq tagKeys[u]
        /\ \A d \in Calls : d # c => spared[d] \subseteq spared'[d]
    BY <1>1, <2>1
  <2> QED BY <1>2, <2>1, <2>2
<1>7. CASE Fail(c) /\ FailRevalidation(c)
  <2>1. UNCHANGED <<tagKeys, cache>>
    BY <1>7 DEF Fail, redis
  <2>2. CASE At(c, "smembers")
    <3>1. Become(c, Idle) /\ UNCHANGED spared
      BY <1>7, <2>2 DEF FailRevalidation, At
    <3> QED BY <1>2, <2>1, <3>1
  <2>3. CASE At(c, "delKeys")
    <3>1. PICK k \in call.keys :
            /\ spared' = [spared EXCEPT ![c] = @ \cup {k}]
            /\ Become(c, AfterDel(c, call.keys \ {k}))
      BY <1>7, <2>3 DEF FailRevalidation, At
    <3> QED BY <1>4, <2>1, <2>3, <3>1
  <2>4. CASE At(c, "delTag")
    <3>1. NextTag(c) /\ spared' = [spared EXCEPT ![c] = {}]
      BY <1>7, <2>4 DEF FailRevalidation, At
    <3>2. \A d \in Calls : d # c => spared[d] \subseteq spared'[d]
      BY <1>1, <3>1
    <3> QED BY <1>2, <2>1, <3>1, <3>2
  <2> QED BY <1>7, <2>2, <2>3, <2>4 DEF FailRevalidation
<1> QED BY <1>3, <1>5, <1>6, <1>7

LEMMA SpareInvInit == Init => SpareInv
<1>1. Init => \A c \in Calls : req[c].pc = "idle"
  BY IdleIsRequest DEF Init
<1> QED BY <1>1 DEF SpareInv, Covered

LEMMA SpareInvNext == TypeInv /\ SpareInv /\ [Next]_vars => SpareInv'
<1> SUFFICES ASSUME TypeInv, SpareInv, [Next]_vars PROVE SpareInv'
  OBVIOUS
<1>1. CASE UNCHANGED vars
  BY <1>1 DEF vars, redis, history, SpareInv, Covered
<1>2. ASSUME NEW c \in Calls,
             \/ Get(c) \/ Serve(c) \/ Render(c) \/ Set(c) \/ Throw(c) \/ MemorySet(c)
             \/ Delete(c) \/ RedisDel(c) \/ RedisSet(c) \/ RedisSadd(c)
             \/ Revalidate(c) \/ Smembers(c) \/ DelKey(c) \/ DelTag(c)
      PROVE  SpareInv'
  BY <1>2, GetSetCovered, StoreCovered, LoopCovered
<1>3. ASSUME NEW c \in Calls, Fail(c) PROVE SpareInv'
  BY <1>3, GetSetCovered, LoopCovered DEF Fail
<1>4. ASSUME NEW c \in Calls, NEW o \in Pods,
             \/ \E k \in Keys : StartGet(c, o, k) \/ StartDelete(c, o, k)
             \/ \E ts \in SUBSET Tags \ {{}} : StartRevalidation(c, o, ts)
      PROVE  SpareInv'
  <2>1. UNCHANGED <<cache, tagKeys, spared>>
    BY <1>4 DEF StartGet, StartDelete, StartRevalidation, redis, history
  <2>2. req'[c] \in Request /\ req'[c].pc \notin {"delKeys", "delTag"} /\ Become(c, req'[c])
    BY <1>4, Starts
  <2> QED BY <2>1, <2>2, QuietCovered
<1>5. ASSUME NEW o \in Pods, Kill(o) PROVE SpareInv'
  <2>1. /\ \A c \in Calls : req'[c] = IF c \in On(o) THEN Idle ELSE req[c]
        /\ \A c \in Calls : c \notin On(o) => spared'[c] = spared[c]
        /\ UNCHANGED <<cache, tagKeys>>
    BY <1>5, Killed DEF Kill, redis
  <2> QED BY <2>1, IdleIsRequest DEF SpareInv, Covered
<1>6. ASSUME NEW o \in Pods, Connect(o) \/ Disconnect(o) PROVE SpareInv'
  BY <1>6 DEF Connect, Disconnect, redis, history, SpareInv, Covered
<1>7. ASSUME NEW k \in Keys, Expire(k) PROVE SpareInv'
  <2>1. \A j \in Keys : cache[j] = NoEntry => cache'[j] = NoEntry
    BY <1>7, DropEmpties DEF Expire
  <2>2. UNCHANGED <<req, tagKeys, spared>>
    BY <1>7 DEF Expire
  <2>3. \A t \in Tags : tagKeys[t] \subseteq Keys
    BY DEF TypeInv, TypeOK
  <2> QED BY <2>1, <2>2, <2>3, CoveredStays DEF SpareInv
<1> QED BY <1>1, <1>2, <1>3, <1>4, <1>5, <1>6, <1>7 DEF Next

LEMMA SpareInvariance == Spec => []SpareInv
  BY SpareInvInit, TypeInvariance, SpareInvNext, PTL DEF Spec

----------------------------------------------------------------------------
(* How an entry comes to be missing from a tag set. *)

\* A call about to store its entry has all the tags of its key to map.
SetMapsAll == \A c \in Calls : At(c, "redisSet") => req[c].tags = TagsOf[req[c].key]

MappedInv == SetMapsAll /\ UnmappedHasCause

\* A SADD on its way stays on its way while its call is at something else, and
\* while another call moves.
LEMMA MappingStays ==
  ASSUME TypeInv, NEW c \in Calls, NEW r \in Request, Become(c, r), ~At(c, "redisSadd"),
         NEW k, NEW t, Mapping(k, t)
  PROVE  Mapping(k, t)'
<1>1. PICK d \in Calls : At(d, "redisSadd") /\ req[d].key = k /\ t \in req[d].tags
  BY DEF Mapping
<1>2. d # c /\ req'[d] = req[d]
  BY <1>1, Becomes DEF TypeInv, TypeOK, At
<1> QED BY <1>1, <1>2 DEF Mapping, At

\* A step of one call that is not at an SADD, stores nothing and takes nothing
\* out of the tag sets.
LEMMA MappedStep ==
  ASSUME TypeInv, MappedInv, NEW c \in Calls, NEW r \in Request, Become(c, r),
         ~At(c, "redisSadd"),
         r.pc = "redisSet" => r.tags = TagsOf[r.key],
         \A k \in Keys : cache[k] = NoEntry => cache'[k] = NoEntry,
         UNCHANGED <<tagKeys, unmapped>>
  PROVE  MappedInv'
<1>1. /\ req' \in [Calls -> Request]
      /\ req'[c] = r
      /\ \A d \in Calls : d # c => req'[d] = req[d]
  BY Becomes DEF TypeInv, TypeOK
<1>2. SetMapsAll'
  BY <1>1 DEF MappedInv, SetMapsAll, At
<1>3. ASSUME NEW k \in Keys, NEW t \in TagsOf[k], cache'[k] # NoEntry
      PROVE  k \in tagKeys'[t] \/ Mapping(k, t)' \/ <<k, t>> \in unmapped'
  <2>1. k \in tagKeys[t] \/ Mapping(k, t) \/ <<k, t>> \in unmapped
    BY <1>3 DEF MappedInv, UnmappedHasCause
  <2> QED BY <2>1, MappingStays
<1> QED BY <1>2, <1>3 DEF MappedInv, UnmappedHasCause

LEMMA StoreMapped ==
  ASSUME TypeInv, MappedInv, NEW c \in Calls, RedisSet(c)
  PROVE  MappedInv'
<1> DEFINE call == req[c]  r == AfterSadd(c, call.tags)
<1>1. call \in Request /\ call.key \in Keys /\ call.tags \in SUBSET Tags
  BY DEF TypeInv, TypeOK, Request
<1>2. /\ call.pc = "redisSet" /\ call.tags = TagsOf[call.key]
      /\ cache' = [cache EXCEPT ![call.key] = call.held]
      /\ unmapped' = unmapped \ ({call.key} \X Tags)
      /\ Become(c, r) /\ UNCHANGED tagKeys
  BY DEF RedisSet, At, MappedInv, SetMapsAll
<1>3. /\ r \in Request /\ r.tags = call.tags /\ r.key = call.key
      /\ r.pc = IF call.tags = {} THEN "memorySet" ELSE "redisSadd"
  BY <1>1, AfterSaddIs
<1> HIDE DEF r
<1>4. /\ req' \in [Calls -> Request]
      /\ req'[c] = r
      /\ \A d \in Calls : d # c => req'[d] = req[d]
  BY <1>2, <1>3, Becomes DEF TypeInv, TypeOK
<1>5. SetMapsAll'
  BY <1>3, <1>4 DEF MappedInv, SetMapsAll, At
<1>6. ASSUME NEW k \in Keys, NEW t \in TagsOf[k], cache'[k] # NoEntry
      PROVE  k \in tagKeys'[t] \/ Mapping(k, t)' \/ <<k, t>> \in unmapped'
  <2>1. CASE k = call.key
    <3>1. r.pc = "redisSadd" /\ t \in r.tags /\ r.key = k
      BY <1>2, <1>3, <1>6, <2>1
    <3> QED BY <1>4, <3>1 DEF Mapping, At
  <2>2. CASE k # call.key
    <3>1. cache[k] # NoEntry
      BY <1>2, <1>6, <2>2 DEF TypeInv, TypeOK
    <3>2. k \in tagKeys[t] \/ Mapping(k, t) \/ <<k, t>> \in unmapped
      BY <1>6, <3>1 DEF MappedInv, UnmappedHasCause
    <3>3. Mapping(k, t) => Mapping(k, t)'
      BY <1>2, <1>3, MappingStays DEF At
    <3> QED BY <1>2, <2>2, <3>2, <3>3
  <2> QED BY <2>1, <2>2
<1> QED BY <1>5, <1>6 DEF MappedInv, UnmappedHasCause

\* One SADD of a call, done or failed, leaves its other tags to map.
LEMMA SaddMapped ==
  ASSUME TypeInv, MappedInv, NEW c \in Calls, At(c, "redisSadd"), NEW t \in req[c].tags,
         Become(c, AfterSadd(c, req[c].tags \ {t})), UNCHANGED cache,
         \A u \in Tags : tagKeys[u] \subseteq tagKeys'[u],
         unmapped \ {<<req[c].key, t>>} \subseteq unmapped',
         req[c].key \in tagKeys'[t] \/ <<req[c].key, t>> \in unmapped'
  PROVE  MappedInv'
<1> DEFINE call == req[c]  r == AfterSadd(c, call.tags \ {t})
<1>1. call \in Request /\ call.key \in Keys /\ call.tags \in SUBSET Tags
  BY DEF TypeInv, TypeOK, Request
<1>2. /\ r \in Request /\ r.tags = call.tags \ {t} /\ r.key = call.key
      /\ r.pc = IF r.tags = {} THEN "memorySet" ELSE "redisSadd"
  BY <1>1, AfterSaddIs
<1>3. Become(c, r)
  OBVIOUS
<1> HIDE DEF r
<1>4. /\ req' \in [Calls -> Request]
      /\ req'[c] = r
      /\ \A d \in Calls : d # c => req'[d] = req[d]
  BY <1>2, <1>3, Becomes DEF TypeInv, TypeOK
<1>5. SetMapsAll'
  BY <1>2, <1>4 DEF MappedInv, SetMapsAll, At
<1>6. ASSUME NEW k \in Keys, NEW u \in TagsOf[k], cache'[k] # NoEntry
      PROVE  k \in tagKeys'[u] \/ Mapping(k, u)' \/ <<k, u>> \in unmapped'
  <2>1. u \in Tags
    BY TagsOfAssumption
  <2>2. k \in tagKeys[u] \/ Mapping(k, u) \/ <<k, u>> \in unmapped
    BY <1>6 DEF MappedInv, UnmappedHasCause
  <2>3. CASE k = call.key /\ u = t
    BY <2>3
  <2>4. CASE ~(k = call.key /\ u = t) /\ (k \in tagKeys[u] \/ <<k, u>> \in unmapped)
    BY <2>1, <2>4
  <2>5. CASE ~(k = call.key /\ u = t) /\ Mapping(k, u)
    <3>1. PICK d \in Calls : At(d, "redisSadd") /\ req[d].key = k /\ u \in req[d].tags
      BY <2>5 DEF Mapping
    <3>2. req'[d].pc = "redisSadd" /\ req'[d].key = k /\ u \in req'[d].tags
      <4>1. CASE d # c
        BY <1>4, <3>1, <4>1 DEF At
      <4>2. CASE d = c
        BY <1>2, <1>4, <2>5, <3>1, <4>2
      <4> QED BY <4>1, <4>2
    <3> QED BY <3>2 DEF Mapping, At
  <2> QED BY <2>2, <2>3, <2>4, <2>5
<1> QED BY <1>5, <1>6 DEF MappedInv, UnmappedHasCause

\* DEL of a tag set takes along the keys that the DELs before have passed over,
\* and says so.
LEMMA DelTagMapped ==
  ASSUME TypeInv, SpareInv, MappedInv, NEW c \in Calls, DelTag(c)
  PROVE  MappedInv'
<1> DEFINE call == req[c]  t == call.tag
<1>1. /\ t \in Tags /\ ~At(c, "redisSadd")
      /\ req \in [Calls -> Request]
  BY DEF TypeInv, TypeOK, DelTag, At, InLoop
<1>2. /\ tagKeys' = [tagKeys EXCEPT ![t] = {}]
      /\ unmapped' = unmapped \cup {<<k, t>> : k \in {j \in tagKeys[t] \cap spared[c] : ~Mapping(j, t)}}
      /\ NextTag(c) /\ UNCHANGED cache
  BY DEF DelTag
<1>3. PICK r \in Request : Become(c, r) /\ (r = Idle \/ r.pc = "smembers")
  BY <1>2, NextTagLeads
<1>4. /\ req'[c] = r
      /\ \A d \in Calls : d # c => req'[d] = req[d]
  BY <1>1, <1>3, Becomes
<1>5. SetMapsAll'
  BY <1>3, <1>4, IdleIsRequest DEF MappedInv, SetMapsAll, At
<1>6. ASSUME NEW k \in Keys, NEW u \in TagsOf[k], cache'[k] # NoEntry
      PROVE  k \in tagKeys'[u] \/ Mapping(k, u)' \/ <<k, u>> \in unmapped'
  <2>1. k \in tagKeys[u] \/ Mapping(k, u) \/ <<k, u>> \in unmapped
    BY <1>2, <1>6 DEF MappedInv, UnmappedHasCause
  <2>2. Mapping(k, u) => Mapping(k, u)'
    BY <1>1, <1>3, MappingStays
  <2>2a. u = t /\ k \in tagKeys[u] => k \in spared[c]
    <3>1. At(c, "delTag") /\ cache[k] # NoEntry
      BY <1>2, <1>6 DEF DelTag
    <3> QED BY <3>1 DEF SpareInv, Covered, At
  <2>3. k \in tagKeys[u] => k \in tagKeys'[u] \/ Mapping(k, u) \/ <<k, u>> \in unmapped'
    BY <1>1, <1>2, <2>2a, TagsOfAssumption DEF TypeInv, TypeOK
  <2> QED BY <1>2, <2>1, <2>2, <2>3
<1> QED BY <1>5, <1>6 DEF MappedInv, UnmappedHasCause

\* A pod that dies with its SADDs on their way says so.
LEMMA KillMapped ==
  ASSUME TypeInv, MappedInv, NEW o \in Pods, Kill(o)
  PROVE  MappedInv'
<1>1. \A c \in Calls : req'[c] = IF c \in On(o) THEN Idle ELSE req[c]
  BY Killed
<1>2. UNCHANGED <<cache, tagKeys>> /\ unmapped \subseteq unmapped'
  BY DEF Kill, redis
<1>3. SetMapsAll'
  BY <1>1, IdleIsRequest DEF MappedInv, SetMapsAll, At
<1>4. ASSUME NEW k \in Keys, NEW t \in TagsOf[k], cache'[k] # NoEntry
      PROVE  k \in tagKeys'[t] \/ Mapping(k, t)' \/ <<k, t>> \in unmapped'
  <2>1. t \in Tags
    BY TagsOfAssumption
  <2>2. k \in tagKeys[t] \/ Mapping(k, t) \/ <<k, t>> \in unmapped
    BY <1>2, <1>4 DEF MappedInv, UnmappedHasCause
  <2>3. CASE Mapping(k, t) /\ k \notin tagKeys[t]
    <3>1. PICK c \in Calls : At(c, "redisSadd") /\ req[c].key = k /\ t \in req[c].tags
      BY <2>3 DEF Mapping
    <3>2. CASE c \in On(o)
      <4>1. <<k, t>> \in unmapped'
        BY <2>1, <2>3, <3>1, <3>2 DEF Kill
      <4> QED BY <4>1
    <3>3. CASE c \notin On(o)
      BY <1>1, <3>1, <3>3 DEF Mapping, At
    <3> QED BY <3>2, <3>3
  <2> QED BY <1>2, <2>2, <2>3
<1> QED BY <1>3, <1>4 DEF MappedInv, UnmappedHasCause

\* The steps of get, of set up to its pipeline, and of set(null).
LEMMA GetSetMapped ==
  ASSUME TypeInv, MappedInv, NEW c \in Calls,
         \/ Get(c) \/ Serve(c) \/ Render(c) \/ Set(c) \/ Throw(c) \/ MemorySet(c)
         \/ Delete(c) \/ RedisDel(c) \/ (Fail(c) /\ FailGet(c))
  PROVE  MappedInv'
<1> DEFINE call == req[c]
<1>1. call \in Request /\ call.key \in Keys /\ Idle \in Request /\ Idle.pc = "idle"
  BY IdleIsRequest DEF TypeInv, TypeOK, Request
<1>2. ASSUME Get(c) PROVE MappedInv'
  <2> DEFINE r == [call EXCEPT !.pc = IF Found(c) = NoEntry THEN "render" ELSE "serve",
                               !.held = Found(c)]
  <2>1. r \in Request /\ r.pc # "redisSet"
    <3>1. Found(c) \in Entry \cup {NoEntry}
      BY <1>1 DEF Found, TypeInv, TypeOK, Request
    <3> QED BY <1>1, <3>1 DEF Request, Stages
  <2>2. Become(c, r) /\ ~At(c, "redisSadd") /\ UNCHANGED <<cache, tagKeys, unmapped>>
    BY <1>2 DEF Get, At, redis, history
  <2> HIDE DEF r
  <2> QED BY <2>1, <2>2, MappedStep
<1>3. ASSUME Serve(c) \/ Throw(c) \/ MemorySet(c) PROVE MappedInv'
  <2>1. Become(c, Idle) /\ ~At(c, "redisSadd") /\ UNCHANGED <<cache, tagKeys, unmapped>>
    BY <1>3 DEF Serve, Throw, MemorySet, At, redis, history
  <2> QED BY <1>1, <2>1, MappedStep
<1>4. ASSUME Render(c) PROVE MappedInv'
  <2> DEFINE r == [call EXCEPT !.pc = "set", !.held = asked]
  <2>1. r \in Request /\ r.pc # "redisSet"
    <3>1. asked \in Entry
      BY BoundAssumption DEF Entry, TypeInv, TypeOK
    <3> QED BY <1>1, <3>1 DEF Request, Stages
  <2>2. Become(c, r) /\ ~At(c, "redisSadd") /\ UNCHANGED <<cache, tagKeys, unmapped>>
    BY <1>4 DEF Render, At, redis, history
  <2> HIDE DEF r
  <2> QED BY <2>1, <2>2, MappedStep
<1>5. ASSUME Set(c) PROVE MappedInv'
  <2> DEFINE r == [call EXCEPT !.pc = IF Client(c) THEN "redisSet" ELSE "memorySet",
                               !.tags = TagsOf[call.key]]
  <2>1. r \in Request /\ r.tags = TagsOf[r.key]
    BY <1>1, TagsOfAssumption DEF Request, Stages
  <2>2. Become(c, r) /\ ~At(c, "redisSadd") /\ UNCHANGED <<cache, tagKeys, unmapped>>
    BY <1>5 DEF Set, At, redis, history
  <2> HIDE DEF r
  <2> QED BY <2>1, <2>2, MappedStep
<1>6. ASSUME Delete(c) PROVE MappedInv'
  <2>1. ~At(c, "redisSadd") /\ UNCHANGED <<cache, tagKeys, unmapped>>
    BY <1>6 DEF Delete, At, redis, history
  <2> DEFINE r == [call EXCEPT !.pc = "redisDel"]
  <2>2. r \in Request /\ r.pc # "redisSet"
    BY <1>1 DEF Request, Stages
  <2>3. Become(c, r) \/ Become(c, Idle)
    BY <1>6 DEF Delete, Goto, Forget
  <2> HIDE DEF r
  <2> QED BY <1>1, <2>1, <2>2, <2>3, MappedStep
<1>7. ASSUME RedisDel(c) PROVE MappedInv'
  <2>1. Drop(call.key) /\ Become(c, Idle) /\ ~At(c, "redisSadd") /\ UNCHANGED <<tagKeys, unmapped>>
    BY <1>7 DEF RedisDel, Forget, At
  <2>2. \A k \in Keys : cache[k] = NoEntry => cache'[k] = NoEntry
    BY <1>1, <2>1, DropEmpties
  <2> QED BY <1>1, <2>1, <2>2, MappedStep
<1>8. ASSUME Fail(c), FailGet(c) PROVE MappedInv'
  <2> DEFINE r == [call EXCEPT !.pc = "render"]
  <2>1. r \in Request /\ r.pc # "redisSet"
    BY <1>1 DEF Request, Stages
  <2>2. Become(c, r) /\ ~At(c, "redisSadd") /\ UNCHANGED <<cache, tagKeys, unmapped>>
    BY <1>8 DEF Fail, FailGet, At, redis
  <2> HIDE DEF r
  <2> QED BY <2>1, <2>2, MappedStep
<1> QED BY <1>2, <1>3, <1>4, <1>5, <1>6, <1>7, <1>8

\* The steps of revalidateTag but the last DEL.
LEMMA RevalidateMapped ==
  ASSUME TypeInv, MappedInv, NEW c \in Calls,
         \/ Revalidate(c) \/ Smembers(c) \/ DelKey(c) \/ (Fail(c) /\ FailRevalidation(c))
  PROVE  MappedInv'
<1> DEFINE call == req[c]
<1>1. /\ call \in Request /\ call.keys \in SUBSET Keys
      /\ tagKeys \in [Tags -> SUBSET Keys]
      /\ Idle \in Request /\ Idle.pc = "idle"
  BY IdleIsRequest DEF TypeInv, TypeOK, Request
<1>2. ~At(c, "redisSadd") /\ UNCHANGED <<tagKeys, unmapped>>
  BY DEF Revalidate, Smembers, DelKey, Fail, FailRevalidation, At, redis
<1>3. ASSUME NextTag(c) \/ Become(c, Idle), UNCHANGED cache PROVE MappedInv'
  <2>1. PICK r \in Request : Become(c, r) /\ r.pc \in {"idle", "smembers"}
    BY <1>1, <1>3, NextTagLeads
  <2> QED BY <1>2, <1>3, <2>1, MappedStep
<1>4. ASSUME NEW ks \in SUBSET Keys, Become(c, AfterDel(c, ks)),
             \A k \in Keys : cache[k] = NoEntry => cache'[k] = NoEntry
      PROVE  MappedInv'
  <2> DEFINE r == AfterDel(c, ks)
  <2>1. r \in Request /\ r.pc # "redisSet" /\ Become(c, r)
    BY <1>4, AfterDelIs
  <2> HIDE DEF r
  <2> QED BY <1>2, <1>4, <2>1, MappedStep
<1>5. ASSUME Revalidate(c) PROVE MappedInv'
  BY <1>3, <1>5 DEF Revalidate, redis
<1>6. ASSUME Smembers(c) PROVE MappedInv'
  <2> DEFINE t == call.tag
  <2>1. UNCHANGED cache /\ t \in Tags
    BY <1>6 DEF Smembers, redis, TypeInv, At, InLoop
  <2>2. CASE tagKeys[t] = {}
    BY <1>3, <1>6, <2>1, <2>2 DEF Smembers
  <2>3. CASE tagKeys[t] # {}
    <3> DEFINE r == [call EXCEPT !.pc = "delKeys", !.keys = tagKeys[t]]
    <3>1. r \in Request /\ r.pc # "redisSet"
      BY <1>1, <2>1 DEF Request, Stages
    <3>2. Become(c, r)
      BY <1>6, <2>3 DEF Smembers
    <3> HIDE DEF r
    <3> QED BY <1>2, <2>1, <3>1, <3>2, MappedStep
  <2> QED BY <2>2, <2>3
<1>7. ASSUME DelKey(c) PROVE MappedInv'
  <2>1. PICK k \in call.keys : Drop(k) /\ Become(c, AfterDel(c, call.keys \ {k}))
    BY <1>7 DEF DelKey
  <2>2. \A j \in Keys : cache[j] = NoEntry => cache'[j] = NoEntry
    BY <1>1, <2>1, DropEmpties
  <2> QED BY <1>1, <1>4, <2>1, <2>2
<1>8. ASSUME Fail(c), FailRevalidation(c) PROVE MappedInv'
  <2>1. UNCHANGED cache
    BY <1>8 DEF Fail, redis
  <2>2. CASE At(c, "delKeys")
    <3>1. PICK k \in call.keys : Become(c, AfterDel(c, call.keys \ {k}))
      BY <1>8, <2>2 DEF FailRevalidation, At
    <3> QED BY <1>1, <1>4, <2>1, <3>1
  <2>3. CASE ~At(c, "delKeys")
    BY <1>3, <1>8, <2>1, <2>3 DEF FailRevalidation
  <2> QED BY <2>2, <2>3
<1> QED BY <1>5, <1>6, <1>7, <1>8

LEMMA MappedInvNext == TypeInv /\ SpareInv /\ MappedInv /\ [Next]_vars => MappedInv'
<1> SUFFICES ASSUME TypeInv, SpareInv, MappedInv, [Next]_vars PROVE MappedInv'
  OBVIOUS
<1>1. CASE UNCHANGED vars
  BY <1>1 DEF vars, redis, history, MappedInv, SetMapsAll, UnmappedHasCause, Mapping, At
<1>2. ASSUME NEW c \in Calls,
             \/ Get(c) \/ Serve(c) \/ Render(c) \/ Set(c) \/ Throw(c) \/ MemorySet(c)
             \/ Delete(c) \/ RedisDel(c) \/ RedisSet(c)
             \/ Revalidate(c) \/ Smembers(c) \/ DelKey(c) \/ DelTag(c)
      PROVE  MappedInv'
  BY <1>2, GetSetMapped, StoreMapped, RevalidateMapped, DelTagMapped
<1>3. ASSUME NEW c \in Calls, RedisSadd(c) PROVE MappedInv'
  <2>1. PICK t \in req[c].tags :
          /\ tagKeys' = [tagKeys EXCEPT ![t] = @ \cup {req[c].key}]
          /\ unmapped' = unmapped \ {<<req[c].key, t>>}
          /\ Become(c, AfterSadd(c, req[c].tags \ {t}))
    BY <1>3 DEF RedisSadd
  <2>2. t \in Tags /\ tagKeys \in [Tags -> SUBSET Keys]
    BY DEF TypeInv, TypeOK, Request
  <2>3. (\A u \in Tags : tagKeys[u] \subseteq tagKeys'[u]) /\ req[c].key \in tagKeys'[t]
    BY <2>1, <2>2
  <2> QED BY <1>3, <2>1, <2>3, SaddMapped DEF RedisSadd
<1>4. ASSUME NEW c \in Calls, Fail(c) PROVE MappedInv'
  <2>1. UNCHANGED <<cache, tagKeys>>
    BY <1>4 DEF Fail, redis
  <2>2. CASE FailGet(c) \/ FailRevalidation(c)
    BY <1>4, <2>2, GetSetMapped, RevalidateMapped
  <2>3. CASE FailSet(c) /\ At(c, "redisSadd")
    <3>1. PICK t \in req[c].tags :
            /\ unmapped' = IF req[c].key \in tagKeys[t]
                               THEN unmapped ELSE unmapped \cup {<<req[c].key, t>>}
            /\ Become(c, AfterSadd(c, req[c].tags \ {t}))
      BY <2>3 DEF FailSet, At
    <3> QED BY <2>1, <2>3, <3>1, SaddMapped
  <2>4. CASE FailSet(c) /\ ~At(c, "redisSadd")
    <3>1. Become(c, AfterSadd(c, req[c].tags)) \/ Become(c, Idle)
      BY <2>4 DEF FailSet
    <3>2. UNCHANGED unmapped
      BY <2>4 DEF FailSet
    <3> DEFINE r == AfterSadd(c, req[c].tags)
    <3>3. r \in Request /\ r.pc # "redisSet"
      <4>1. req[c].tags \in SUBSET Tags
        BY DEF TypeInv, TypeOK, Request
      <4> QED BY <4>1, AfterSaddIs
    <3> HIDE DEF r
    <3> QED BY <2>1, <2>4, <3>1, <3>2, <3>3, IdleIsRequest, MappedStep DEF r
  <2> QED BY <1>4, <2>2, <2>3, <2>4 DEF Fail
<1>5. ASSUME NEW c \in Calls, NEW o \in Pods,
             \/ \E k \in Keys : StartGet(c, o, k) \/ StartDelete(c, o, k)
             \/ \E ts \in SUBSET Tags \ {{}} : StartRevalidation(c, o, ts)
      PROVE  MappedInv'
  <2>1. ~At(c, "redisSadd") /\ UNCHANGED <<cache, tagKeys, unmapped>>
    BY <1>5 DEF StartGet, StartDelete, StartRevalidation, At, redis, history
  <2>2. req'[c] \in Request /\ req'[c].pc # "redisSet" /\ Become(c, req'[c])
    BY <1>5, Starts
  <2> QED BY <2>1, <2>2, MappedStep
<1>6. ASSUME NEW o \in Pods, Kill(o) PROVE MappedInv'
  BY <1>6, KillMapped
<1>7. ASSUME NEW o \in Pods, Connect(o) \/ Disconnect(o) PROVE MappedInv'
  BY <1>7 DEF Connect, Disconnect, redis, history, MappedInv, SetMapsAll, UnmappedHasCause,
              Mapping, At
<1>8. ASSUME NEW k \in Keys, Expire(k) PROVE MappedInv'
  <2>1. \A j \in Keys : cache[j] = NoEntry => cache'[j] = NoEntry
    BY <1>8, DropEmpties DEF Expire
  <2>2. UNCHANGED <<req, tagKeys, unmapped>>
    BY <1>8 DEF Expire
  <2> QED BY <2>1, <2>2 DEF MappedInv, SetMapsAll, UnmappedHasCause, Mapping, At
<1> QED BY <1>1, <1>2, <1>3, <1>4, <1>5, <1>6, <1>7, <1>8 DEF Next

LEMMA MappedInvInit == Init => MappedInv
<1>1. Init => \A c \in Calls : req[c].pc = "idle"
  BY IdleIsRequest DEF Init
<1> QED BY <1>1 DEF Init, MappedInv, SetMapsAll, UnmappedHasCause, At

\* An entry that some tag cannot find has one of the causes that UnmappedHasCause
\* names: a key is lost to the DEL of a tag set only if it was stored or added
\* after SMEMBERS or its own DEL had failed.  For any number of calls, pods,
\* failures and deaths (cache-handler.js, set and revalidateTag).
THEOREM UnmappedIsExplained == Spec => []UnmappedHasCause
<1>1. MappedInv => UnmappedHasCause
  BY DEF MappedInv
<1> QED BY <1>1, MappedInvInit, TypeInvariance, SpareInvariance, MappedInvNext, PTL DEF Spec

----------------------------------------------------------------------------
(* How an entry comes to survive a revalidation of its tag. *)

\* The entry of k, rendered before the n-th revalidation of t was asked for, is
\* among the entries in Redis, and of the causes none is known for it.
Escaped(entries, causes, k, t, n) ==
    entries[k] # NoEntry /\ entries[k][t] < n /\ causes[k][t] = "none"

\* What escapes a revalidation in progress is on the list of keys to delete.
LoopCovers ==
    \A c \in Calls : \A k \in Keys :
        (/\ req[c].pc \in {"delKeys", "delTag"}
         /\ req[c].tag \in TagsOf[k]
         /\ Escaped(cache, missed, k, req[c].tag, req[c].round[req[c].tag]))
            => At(c, "delKeys") /\ k \in req[c].keys

StaleInv == LoopCovers /\ StaleHasCause

LEMMA StaleInvInit == Init => StaleInv
<1> SUFFICES ASSUME Init PROVE StaleInv
  OBVIOUS
<1>1. \A c \in Calls : req[c].pc = "idle"
  BY IdleIsRequest DEF Init
<1>2. \A k \in Keys : cache[k] = NoEntry
  BY DEF Init
<1> QED BY <1>1, <1>2 DEF StaleInv, LoopCovers, StaleHasCause

\* A step of one call by which no entry begins to escape, and which acknowledges
\* only what no entry escapes.
LEMMA StaleStep ==
  ASSUME TypeInv, TypeInv', StaleInv, NEW c \in Calls, NEW r \in Request, Become(c, r),
         \A k \in Keys : \A t \in TagsOf[k] : \A n \in Nat :
             n <= asked[t] /\ Escaped(cache', missed', k, t, n) => Escaped(cache, missed, k, t, n),
         \A k \in Keys : \A t \in TagsOf[k] :
             acked'[t] # acked[t] => ~Escaped(cache', missed', k, t, acked'[t]),
         r.pc \in {"delKeys", "delTag"} =>
             \A k \in Keys : r.tag \in TagsOf[k]
                             /\ Escaped(cache', missed', k, r.tag, r.round[r.tag])
                                 => r.pc = "delKeys" /\ k \in r.keys
  PROVE  StaleInv'
<1>1. /\ req' \in [Calls -> Request]
      /\ req'[c] = r
      /\ \A d \in Calls : d # c => req'[d] = req[d]
  BY Becomes DEF TypeInv, TypeOK
<1>2. LoopCovers'
  <2> SUFFICES ASSUME NEW d \in Calls, NEW k \in Keys,
                      req'[d].pc \in {"delKeys", "delTag"},
                      req'[d].tag \in TagsOf[k],
                      Escaped(cache', missed', k, req'[d].tag, req'[d].round[req'[d].tag])
               PROVE  req'[d].pc = "delKeys" /\ k \in req'[d].keys
    BY DEF LoopCovers, At
  <2>1. CASE d = c
    BY <1>1, <2>1
  <2>2. CASE d # c
    <3> DEFINE t == req[d].tag
    <3>1. req'[d] = req[d]
      BY <1>1, <2>2
    <3>2. t \in Tags /\ t \in TagsOf[k]
      BY <3>1, TagsOfAssumption
    <3>3. req[d].round[t] \in Nat /\ req[d].round[t] <= asked[t]
      BY <3>2 DEF TypeInv, TypeOK, Request
    <3>4. Escaped(cache, missed, k, t, req[d].round[t])
      BY <3>1, <3>2, <3>3
    <3> QED BY <3>1, <3>4 DEF StaleInv, LoopCovers, At
  <2> QED BY <2>1, <2>2
<1>3. StaleHasCause'
  <2> SUFFICES ASSUME NEW k \in Keys, NEW t \in TagsOf[k],
                      Escaped(cache', missed', k, t, acked'[t])
               PROVE  FALSE
    BY DEF StaleHasCause, Escaped
  <2>1. t \in Tags /\ acked[t] \in Nat /\ asked[t] \in Nat /\ acked[t] <= asked[t]
    BY TagsOfAssumption, BoundAssumption DEF TypeInv, TypeOK
  <2>2. acked'[t] = acked[t]
    OBVIOUS
  <2>3. Escaped(cache, missed, k, t, acked[t])
    BY <2>1, <2>2
  <2> QED BY <2>3 DEF Escaped, StaleInv, StaleHasCause
<1> QED BY <1>2, <1>3 DEF StaleInv

\* What is gone escapes nothing.
LEMMA DropEscapes ==
  ASSUME TypeInv, NEW k \in Keys, Drop(k), NEW j \in Keys, NEW t \in Tags, NEW n,
         Escaped(cache', missed', j, t, n)
  PROVE  Escaped(cache, missed, j, t, n)
<1>1. \A i \in Keys : cache'[i] = IF i = k THEN NoEntry ELSE cache[i]
  BY DropEmpties
<1>2. j # k /\ missed'[j] = missed[j]
  BY <1>1 DEF Escaped, Drop, TypeInv, TypeOK
<1> QED BY <1>1, <1>2 DEF Escaped

\* Nor does what is blamed.
LEMMA BlameEscapes ==
  ASSUME NEW pairs, NEW why, why # "none", Blame(pairs, why), UNCHANGED cache,
         NEW k \in Keys, NEW t \in Tags, NEW n, Escaped(cache', missed', k, t, n)
  PROVE  Escaped(cache, missed, k, t, n) /\ <<k, t>> \notin pairs
  BY DEF Blame, Escaped

\* The targets of a call are what would escape it.
LEMMA TargetsAre ==
  ASSUME NEW c, NEW ts, NEW k \in Keys, NEW t \in ts, t \in TagsOf[k],
         Escaped(cache, missed, k, t, req[c].round[t])
  PROVE  <<k, t>> \in Targets(c, ts)
  BY DEF Targets, Escaped

\* A step that neither changes Redis nor acknowledges anything.
LEMMA QuietStale ==
  ASSUME TypeInv, TypeInv', StaleInv, NEW c \in Calls, NEW r \in Request, Become(c, r),
         r.pc \notin {"delKeys", "delTag"}, UNCHANGED <<cache, missed, acked>>
  PROVE  StaleInv'
  BY StaleStep

\* Every entry that escapes is stored by a call that overlaps the revalidation.
LEMMA StoreStale ==
  ASSUME TypeInv, TypeInv', StaleInv, NEW c \in Calls, RedisSet(c)
  PROVE  StaleInv'
<1> DEFINE call == req[c]  r == AfterSadd(c, call.tags)
<1>1. /\ call.key \in Keys /\ call.tags \in SUBSET Tags
      /\ call.held \in Entry \cup {NoEntry}
  BY DEF TypeInv, TypeOK, Request
<1>2. /\ cache' = [cache EXCEPT ![call.key] = call.held]
      /\ missed' = [missed EXCEPT ![call.key] =
                      [t \in Tags |-> IF call.held[t] < asked[t] THEN "overlap" ELSE "none"]]
      /\ Become(c, r) /\ UNCHANGED acked
  BY DEF RedisSet
<1>3. r \in Request /\ r.pc \notin {"delKeys", "delTag"}
  BY <1>1, AfterSaddIs
<1> HIDE DEF r
<1>4. ASSUME NEW k \in Keys, NEW t \in TagsOf[k], NEW n \in Nat, n <= asked[t],
             Escaped(cache', missed', k, t, n)
      PROVE  Escaped(cache, missed, k, t, n)
  <2>1. t \in Tags /\ asked[t] \in Nat
    BY TagsOfAssumption, BoundAssumption DEF TypeInv, TypeOK
  <2>2. CASE k = call.key
    <3>1. /\ cache'[k] = call.held
          /\ missed'[k][t] = IF call.held[t] < asked[t] THEN "overlap" ELSE "none"
      BY <1>1, <1>2, <2>1, <2>2 DEF TypeInv, TypeOK
    <3>2. call.held \in Entry
      BY <1>1, <1>4, <3>1 DEF Escaped
    <3>3. call.held[t] \in Nat
      BY <2>1, <3>2 DEF Entry
    <3>4. call.held[t] < n /\ ~(call.held[t] < asked[t])
      BY <1>4, <3>1 DEF Escaped
    <3> QED BY <1>4, <2>1, <3>3, <3>4
  <2>3. CASE k # call.key
    BY <1>2, <1>4, <2>3 DEF Escaped, TypeInv, TypeOK
  <2> QED BY <2>2, <2>3
<1> QED BY <1>2, <1>3, <1>4, StaleStep

LEMMA GetSetStale ==
  ASSUME TypeInv, TypeInv', StaleInv, NEW c \in Calls,
         \/ Get(c) \/ Serve(c) \/ Render(c) \/ Set(c) \/ Throw(c) \/ MemorySet(c)
         \/ Delete(c) \/ RedisSadd(c) \/ (Fail(c) /\ (FailGet(c) \/ FailSet(c)))
  PROVE  StaleInv'
<1>1. UNCHANGED <<cache, missed, acked>>
  BY DEF Get, Serve, Render, Set, Throw, MemorySet, Delete, RedisSadd, Fail, FailGet, FailSet,
         redis, history
<1>2. /\ req \in [Calls -> Request] /\ req'[c] \in Request
      /\ req[c].tags \in SUBSET Tags
  BY DEF TypeInv, TypeOK, Request
<1>3. ASSUME NEW ts \in SUBSET Tags, Become(c, AfterSadd(c, ts)) PROVE StaleInv'
  <2>1. AfterSadd(c, ts) \in Request /\ AfterSadd(c, ts).pc \notin {"delKeys", "delTag"}
    BY AfterSaddIs
  <2> QED BY <1>1, <1>3, <2>1, QuietStale
<1>4. ASSUME Become(c, Idle) PROVE StaleInv'
  BY <1>1, <1>4, IdleIsRequest, QuietStale
<1>5. ASSUME NEW r, Become(c, r), r.pc \notin {"delKeys", "delTag"} PROVE StaleInv'
  <2>1. req'[c] = r
    BY <1>2, <1>5 DEF Become
  <2> QED BY <1>1, <1>2, <1>5, <2>1, QuietStale
<1>6. CASE Serve(c) \/ Throw(c) \/ MemorySet(c)
  BY <1>4, <1>6 DEF Serve, Throw, MemorySet
<1>7. CASE RedisSadd(c)
  BY <1>2, <1>3, <1>7 DEF RedisSadd
<1>8. CASE Fail(c) /\ FailSet(c)
  BY <1>2, <1>3, <1>4, <1>8 DEF FailSet
<1>9. CASE Get(c)
  <2> DEFINE r == [req[c] EXCEPT !.pc = IF Found(c) = NoEntry THEN "render" ELSE "serve",
                                 !.held = Found(c)]
  <2>1. Become(c, r) /\ r.pc \in {"render", "serve"}
    BY <1>2, <1>9 DEF Get, Request
  <2> HIDE DEF r
  <2> QED BY <1>5, <2>1
<1>10. CASE Render(c)
  <2> DEFINE r == [req[c] EXCEPT !.pc = "set", !.held = asked]
  <2>1. Become(c, r) /\ r.pc = "set"
    BY <1>2, <1>10 DEF Render, Request
  <2> HIDE DEF r
  <2> QED BY <1>5, <2>1
<1>11. CASE Set(c)
  <2> DEFINE r == [req[c] EXCEPT !.pc = IF Client(c) THEN "redisSet" ELSE "memorySet",
                                 !.tags = TagsOf[req[c].key]]
  <2>1. Become(c, r) /\ r.pc \in {"redisSet", "memorySet"}
    BY <1>2, <1>11 DEF Set, Request
  <2> HIDE DEF r
  <2> QED BY <1>5, <2>1
<1>12. CASE Delete(c)
  <2> DEFINE r == [req[c] EXCEPT !.pc = "redisDel"]
  <2>1. r.pc = "redisDel" /\ (Become(c, r) \/ Become(c, Idle))
    BY <1>2, <1>12 DEF Delete, Goto, Forget, Request
  <2> HIDE DEF r
  <2> QED BY <1>4, <1>5, <2>1
<1>13. CASE Fail(c) /\ FailGet(c)
  <2> DEFINE r == [req[c] EXCEPT !.pc = "render"]
  <2>1. Become(c, r) /\ r.pc = "render"
    BY <1>2, <1>13 DEF FailGet, Request
  <2> HIDE DEF r
  <2> QED BY <1>5, <2>1
<1> QED BY <1>6, <1>7, <1>8, <1>9, <1>10, <1>11, <1>12, <1>13

\* A call that ends or takes its next tag, and acknowledges the tags ts that no
\* entry escapes any more.
LEMMA AcknowledgeStale ==
  ASSUME TypeInv, TypeInv', StaleInv, NEW c \in Calls, NextTag(c) \/ Become(c, Idle),
         NEW ts \in SUBSET Tags, Acknowledge(c, ts),
         \A k \in Keys : \A t \in TagsOf[k] : \A n \in Nat :
             Escaped(cache', missed', k, t, n) => Escaped(cache, missed, k, t, n),
         \A t \in ts : \A k \in Keys :
             t \in TagsOf[k] => ~Escaped(cache', missed', k, t, req[c].round[t])
  PROVE  StaleInv'
<1>1. PICK r \in Request : Become(c, r) /\ r.pc \notin {"delKeys", "delTag"}
  BY NextTagLeads, IdleIsRequest
<1>2. ASSUME NEW k \in Keys, NEW t \in TagsOf[k], acked'[t] # acked[t]
      PROVE  ~Escaped(cache', missed', k, t, acked'[t])
  <2>1. t \in ts /\ acked'[t] = req[c].round[t]
    BY <1>2, TagsOfAssumption DEF Acknowledge
  <2> QED BY <2>1
<1> QED BY <1>1, <1>2, StaleStep

LEMMA SmembersStale ==
  ASSUME TypeInv, TypeInv', StaleInv, NEW c \in Calls, Smembers(c)
  PROVE  StaleInv'
<1> DEFINE call == req[c]  t == call.tag
           pairs == {x \in Targets(c, {t}) : x[1] \notin tagKeys[t]}
<1>1. call \in Request /\ t \in Tags /\ tagKeys[t] \in SUBSET Keys
  BY DEF TypeInv, TypeOK, Smembers, At, InLoop
<1>2. Blame(pairs, "unlisted") /\ UNCHANGED cache
  BY DEF Smembers, redis
<1>3. ASSUME NEW k \in Keys, NEW u \in TagsOf[k], NEW n \in Nat,
             Escaped(cache', missed', k, u, n)
      PROVE  Escaped(cache, missed, k, u, n) /\ <<k, u>> \notin pairs
  BY <1>2, <1>3, BlameEscapes, TagsOfAssumption
<1>4. ASSUME NEW k \in Keys, t \in TagsOf[k], Escaped(cache', missed', k, t, call.round[t])
      PROVE  k \in tagKeys[t]
  <2>1. call.round[t] \in Nat
    BY <1>1 DEF Request
  <2>2. Escaped(cache, missed, k, t, call.round[t]) /\ <<k, t>> \notin pairs
    BY <1>3, <1>4, <2>1
  <2>3. <<k, t>> \in Targets(c, {t})
    BY <1>4, <2>2, TargetsAre
  <2> QED BY <2>2, <2>3
<1>5. CASE tagKeys[t] = {}
  <2>1. NextTag(c) /\ Acknowledge(c, {t}) /\ {t} \in SUBSET Tags
    BY <1>1, <1>5 DEF Smembers
  <2>2. \A u \in {t} : \A k \in Keys :
          u \in TagsOf[k] => ~Escaped(cache', missed', k, u, call.round[u])
    BY <1>4, <1>5
  <2> HIDE DEF pairs
  <2> QED BY <1>3, <2>1, <2>2, AcknowledgeStale
<1>6. CASE tagKeys[t] # {}
  <2> DEFINE r == [call EXCEPT !.pc = "delKeys", !.keys = tagKeys[t]]
  <2>1. Become(c, r) /\ UNCHANGED acked
    BY <1>6 DEF Smembers
  <2>2. /\ r \in Request /\ r.pc = "delKeys" /\ r.tag = t /\ r.keys = tagKeys[t]
        /\ r.round = call.round
    BY <1>1 DEF Request, Stages
  <2> HIDE DEF r, pairs
  <2> QED BY <1>3, <1>4, <2>1, <2>2, StaleStep
<1> QED BY <1>5, <1>6

\* After a DEL of the key k, done or failed, only the other keys are left to delete.
LEMMA AfterDelStale ==
  ASSUME TypeInv, TypeInv', StaleInv, NEW c \in Calls, At(c, "delKeys"),
         NEW k \in Keys, Become(c, AfterDel(c, req[c].keys \ {k})), UNCHANGED acked,
         \A j \in Keys : \A t \in TagsOf[j] : \A n \in Nat :
             Escaped(cache', missed', j, t, n) => Escaped(cache, missed, j, t, n),
         req[c].tag \in TagsOf[k] =>
             ~Escaped(cache', missed', k, req[c].tag, req[c].round[req[c].tag])
  PROVE  StaleInv'
<1> DEFINE call == req[c]  t == call.tag  r == AfterDel(c, call.keys \ {k})
<1>1. call \in Request /\ t \in Tags /\ call.keys \ {k} \in SUBSET Keys /\ call.round[t] \in Nat
  BY DEF TypeInv, TypeOK, At, InLoop, Request
<1>2. /\ r \in Request /\ r.keys = call.keys \ {k} /\ r.tag = t /\ r.round = call.round
      /\ r.pc = IF r.keys = {} THEN "delTag" ELSE "delKeys"
  BY <1>1, AfterDelIs
<1>3. Become(c, r)
  OBVIOUS
<1> HIDE DEF r
<1>4. ASSUME NEW j \in Keys, t \in TagsOf[j], Escaped(cache', missed', j, t, call.round[t])
      PROVE  j \in r.keys
  <2>1. j # k /\ Escaped(cache, missed, j, t, call.round[t])
    BY <1>1, <1>4
  <2>2. j \in call.keys
    BY <1>4, <2>1 DEF StaleInv, LoopCovers, At
  <2> QED BY <1>2, <2>1, <2>2
<1> QED BY <1>2, <1>3, <1>4, StaleStep

LEMMA RevalidateStale ==
  ASSUME TypeInv, TypeInv', StaleInv, NEW c \in Calls,
         Revalidate(c) \/ DelKey(c) \/ DelTag(c)
  PROVE  StaleInv'
<1> DEFINE call == req[c]
<1>1. /\ call \in Request /\ call.tags \in SUBSET Tags /\ call.keys \in SUBSET Keys
  BY DEF TypeInv, TypeOK, Request
<1>2. ASSUME Revalidate(c), Client(c) PROVE StaleInv'
  <2>1. NextTag(c) /\ UNCHANGED <<cache, missed, acked>>
    BY <1>2 DEF Revalidate, redis
  <2>2. PICK r \in Request : Become(c, r) /\ r.pc \notin {"delKeys", "delTag"}
    BY <2>1, NextTagLeads, IdleIsRequest
  <2> QED BY <2>1, <2>2, QuietStale
<1>3. ASSUME Revalidate(c), ~Client(c) PROVE StaleInv'
  <2> DEFINE pairs == Targets(c, call.tags)
  <2>1. Blame(pairs, "fault") /\ Acknowledge(c, call.tags) /\ Become(c, Idle) /\ UNCHANGED cache
    BY <1>3 DEF Revalidate, redis
  <2>2. ASSUME NEW k \in Keys, NEW t \in TagsOf[k], NEW n \in Nat,
               Escaped(cache', missed', k, t, n)
        PROVE  Escaped(cache, missed, k, t, n) /\ <<k, t>> \notin pairs
    BY <2>1, <2>2, BlameEscapes, TagsOfAssumption
  <2>3. ASSUME NEW t \in call.tags, NEW k \in Keys, t \in TagsOf[k],
               Escaped(cache', missed', k, t, call.round[t])
        PROVE  FALSE
    <3>1. call.round[t] \in Nat
      BY <1>1 DEF Request
    <3>2. Escaped(cache, missed, k, t, call.round[t]) /\ <<k, t>> \notin pairs
      BY <2>2, <2>3, <3>1
    <3> QED BY <2>3, <3>2, TargetsAre
  <2> HIDE DEF pairs
  <2> QED BY <1>1, <2>1, <2>2, <2>3, AcknowledgeStale
<1>4. ASSUME DelKey(c) PROVE StaleInv'
  <2>1. PICK k \in call.keys : Drop(k) /\ Become(c, AfterDel(c, call.keys \ {k}))
    BY <1>4 DEF DelKey
  <2>2. At(c, "delKeys") /\ UNCHANGED acked /\ k \in Keys
    BY <1>1, <1>4 DEF DelKey
  <2>3. cache'[k] = NoEntry
    BY <2>1, <2>2, DropEmpties
  <2>4. \A j \in Keys : \A t \in TagsOf[j] : \A n \in Nat :
             Escaped(cache', missed', j, t, n) => Escaped(cache, missed, j, t, n)
    BY <2>1, <2>2, DropEscapes, TagsOfAssumption
  <2>5. ~Escaped(cache', missed', k, call.tag, call.round[call.tag])
    BY <2>3 DEF Escaped
  <2> QED BY <2>1, <2>2, <2>4, <2>5, AfterDelStale
<1>5. ASSUME DelTag(c) PROVE StaleInv'
  <2> DEFINE t == call.tag
  <2>1. NextTag(c) /\ Acknowledge(c, {t}) /\ UNCHANGED <<cache, missed>> /\ {t} \in SUBSET Tags
    BY <1>5 DEF DelTag, TypeInv, At, InLoop
  <2>2. \A u \in {t} : \A k \in Keys :
          u \in TagsOf[k] => ~Escaped(cache', missed', k, u, call.round[u])
    BY <1>5, <2>1 DEF DelTag, At, StaleInv, LoopCovers
  <2> QED BY <2>1, <2>2, AcknowledgeStale
<1> QED BY <1>2, <1>3, <1>4, <1>5

LEMMA FailRevalidationStale ==
  ASSUME TypeInv, TypeInv', StaleInv, NEW c \in Calls, Fail(c), FailRevalidation(c)
  PROVE  StaleInv'
<1> DEFINE call == req[c]  t == call.tag
<1>1. /\ call \in Request /\ call.tags \in SUBSET Tags /\ call.keys \in SUBSET Keys
      /\ call.pc \in InLoop => t \in Tags
  BY DEF TypeInv, TypeOK, Request
<1>2. UNCHANGED cache
  BY DEF Fail, redis
<1>3. CASE At(c, "smembers")
  <2> DEFINE ts == call.tags \cup {t}  pairs == Targets(c, ts)
  <2>1. Blame(pairs, "fault") /\ Acknowledge(c, ts) /\ Become(c, Idle)
    BY <1>3 DEF FailRevalidation, At
  <2>2. ts \in SUBSET Tags
    BY <1>1, <1>3 DEF At, InLoop
  <2> HIDE DEF ts
  <2>3. ASSUME NEW k \in Keys, NEW u \in TagsOf[k], NEW n \in Nat,
               Escaped(cache', missed', k, u, n)
        PROVE  Escaped(cache, missed, k, u, n) /\ <<k, u>> \notin pairs
    BY <1>2, <2>1, <2>3, BlameEscapes, TagsOfAssumption
  <2>4. ASSUME NEW u \in ts, NEW k \in Keys, u \in TagsOf[k],
               Escaped(cache', missed', k, u, call.round[u])
        PROVE  FALSE
    <3>1. call.round[u] \in Nat
      BY <1>1, <2>2 DEF Request
    <3>2. Escaped(cache, missed, k, u, call.round[u]) /\ <<k, u>> \notin pairs
      BY <2>3, <2>4, <3>1
    <3> QED BY <2>4, <3>2, TargetsAre
  <2> HIDE DEF pairs
  <2> QED BY <2>1, <2>2, <2>3, <2>4, AcknowledgeStale
<1>4. CASE At(c, "delKeys")
  <2>1. UNCHANGED acked
    BY <1>4 DEF FailRevalidation, At
  <2>2. PICK k \in call.keys :
          /\ Blame({x \in Targets(c, {t}) : x[1] = k}, "fault")
          /\ Become(c, AfterDel(c, call.keys \ {k}))
    BY <1>4 DEF FailRevalidation, At
  <2> DEFINE pairs == {x \in Targets(c, {t}) : x[1] = k}
  <2>3. ASSUME NEW j \in Keys, NEW u \in TagsOf[j], NEW n \in Nat,
               Escaped(cache', missed', j, u, n)
        PROVE  Escaped(cache, missed, j, u, n) /\ <<j, u>> \notin pairs
    BY <1>2, <2>2, <2>3, BlameEscapes, TagsOfAssumption
  <2>4. k \in Keys /\ call.round[t] \in Nat
    BY <1>1, <1>4 DEF At, InLoop, Request
  <2>5. ASSUME t \in TagsOf[k], Escaped(cache', missed', k, t, call.round[t]) PROVE FALSE
    <3>1. Escaped(cache, missed, k, t, call.round[t]) /\ <<k, t>> \notin pairs
      BY <2>3, <2>4, <2>5
    <3>2. <<k, t>> \in Targets(c, {t})
      BY <2>4, <2>5, <3>1, TargetsAre
    <3> QED BY <3>1, <3>2
  <2> HIDE DEF pairs
  <2> QED BY <1>4, <2>1, <2>2, <2>3, <2>4, <2>5, AfterDelStale
<1>5. CASE At(c, "delTag")
  <2>1. NextTag(c) /\ Acknowledge(c, {t}) /\ UNCHANGED missed /\ {t} \in SUBSET Tags
    BY <1>1, <1>5 DEF FailRevalidation, At, InLoop
  <2>2. \A u \in {t} : \A k \in Keys :
          u \in TagsOf[k] => ~Escaped(cache', missed', k, u, call.round[u])
    BY <1>2, <1>5, <2>1 DEF At, StaleInv, LoopCovers
  <2> QED BY <1>2, <2>1, <2>2, AcknowledgeStale
<1> QED BY <1>3, <1>4, <1>5 DEF FailRevalidation

LEMMA StaleInvNext == TypeInv /\ TypeInv' /\ StaleInv /\ [Next]_vars => StaleInv'
<1> SUFFICES ASSUME TypeInv, TypeInv', StaleInv, [Next]_vars PROVE StaleInv'
  OBVIOUS
<1>1. CASE UNCHANGED vars
  BY <1>1 DEF vars, redis, history, StaleInv, LoopCovers, StaleHasCause, Escaped, At
<1>2. ASSUME NEW c \in Calls,
             \/ Get(c) \/ Serve(c) \/ Render(c) \/ Set(c) \/ Throw(c) \/ MemorySet(c)
             \/ Delete(c) \/ RedisSet(c) \/ RedisSadd(c)
             \/ Revalidate(c) \/ Smembers(c) \/ DelKey(c) \/ DelTag(c) \/ Fail(c)
      PROVE  StaleInv'
  BY <1>2, GetSetStale, StoreStale, RevalidateStale, SmembersStale, FailRevalidationStale DEF Fail
<1>3. ASSUME NEW c \in Calls, RedisDel(c) PROVE StaleInv'
  <2>1. Drop(req[c].key) /\ req[c].key \in Keys /\ Become(c, Idle) /\ UNCHANGED acked
    BY <1>3 DEF RedisDel, Forget, TypeInv, TypeOK, Request
  <2>2. \A k \in Keys : \A t \in TagsOf[k] : \A n \in Nat :
             Escaped(cache', missed', k, t, n) => Escaped(cache, missed, k, t, n)
    BY <2>1, DropEscapes, TagsOfAssumption
  <2> QED BY <2>1, <2>2, IdleIsRequest, StaleStep
<1>4. ASSUME NEW c \in Calls, NEW o \in Pods,
             \/ \E k \in Keys : StartGet(c, o, k) \/ StartDelete(c, o, k)
             \/ \E ts \in SUBSET Tags \ {{}} : StartRevalidation(c, o, ts)
      PROVE  StaleInv'
  <2>1. UNCHANGED <<cache, missed, acked>>
    BY <1>4 DEF StartGet, StartDelete, StartRevalidation, redis, history
  <2> QED BY <1>4, <2>1, Starts, QuietStale
<1>5. ASSUME NEW o \in Pods, Kill(o) PROVE StaleInv'
  <2>1. \A c \in Calls : req'[c] = req[c] \/ req'[c].pc = "idle"
    BY <1>5, Killed, IdleIsRequest
  <2>2. UNCHANGED <<cache, missed, acked>>
    BY <1>5 DEF Kill, redis
  <2> QED BY <2>1, <2>2 DEF StaleInv, LoopCovers, StaleHasCause, Escaped, At
<1>6. ASSUME NEW o \in Pods, Connect(o) \/ Disconnect(o) PROVE StaleInv'
  BY <1>6 DEF Connect, Disconnect, redis, history, StaleInv, LoopCovers, StaleHasCause, Escaped, At
<1>7. ASSUME NEW k \in Keys, Expire(k) PROVE StaleInv'
  <2>1. \A j \in Keys : \A t \in Tags : \A n \in Nat :
             Escaped(cache', missed', j, t, n) => Escaped(cache, missed, j, t, n)
    BY <1>7, DropEscapes DEF Expire
  <2>2. UNCHANGED <<req, acked>>
    BY <1>7 DEF Expire
  <2>3. \A t \in Tags : acked[t] \in Nat /\ \A c \in Calls : req[c].round[t] \in Nat
    BY BoundAssumption DEF TypeInv, TypeOK, Request
  <2>4. LoopCovers'
    <3> SUFFICES ASSUME NEW c \in Calls, NEW j \in Keys,
                        req[c].pc \in {"delKeys", "delTag"}, req[c].tag \in TagsOf[j],
                        Escaped(cache', missed', j, req[c].tag, req[c].round[req[c].tag])
                 PROVE  req[c].pc = "delKeys" /\ j \in req[c].keys
      BY <2>2 DEF LoopCovers, At
    <3>1. Escaped(cache, missed, j, req[c].tag, req[c].round[req[c].tag])
      BY <2>1, <2>3, TagsOfAssumption
    <3> QED BY <3>1 DEF StaleInv, LoopCovers, At
  <2>5. StaleHasCause'
    <3> SUFFICES ASSUME NEW j \in Keys, NEW t \in TagsOf[j],
                        Escaped(cache', missed', j, t, acked[t])
                 PROVE  FALSE
      BY <2>2 DEF StaleHasCause, Escaped
    <3>1. Escaped(cache, missed, j, t, acked[t])
      BY <2>1, <2>3, TagsOfAssumption
    <3> QED BY <3>1 DEF StaleInv, StaleHasCause, Escaped
  <2> QED BY <2>4, <2>5 DEF StaleInv
<1> QED BY <1>1, <1>2, <1>3, <1>4, <1>5, <1>6, <1>7 DEF Next

\* An entry survives a revalidation of its tag only by overlapping it, by not
\* being in the tag set, or by a failure, for any number of calls, pods,
\* failures and deaths (cache-handler.js, revalidateTag).
THEOREM StaleIsExplained == Spec => []StaleHasCause
<1>1. StaleInv => StaleHasCause
  BY DEF StaleInv
<1> QED BY <1>1, TypeInvariance, StaleInvInit, StaleInvNext, PTL DEF Spec

----------------------------------------------------------------------------
(* What one call at a time is served, while Redis is connected. *)

OneAtATime == \A c, d \in Calls : c = d
AlwaysConnected == UseRedis /\ ~Outages /\ ~Deaths

\* Redis is complete: nothing has gone by a revalidation, and what a tag set
\* lacks is not stored.
NothingMissed ==
    /\ \A o \in Pods : ready[o]
    /\ \A k \in Keys : \A t \in Tags : missed[k][t] = "none"
    /\ \A k \in Keys : \A t \in Tags : <<k, t>> \in unmapped => cache[k] = NoEntry

\* What the one call that runs has in hand is current, and a loop of
\* revalidateTag has deleted all that is not on its list.
CallIsCurrent ==
    \A c \in Calls :
        /\ req[c].pc \in {"set", "redisSet"} => req[c].held = asked
        /\ req[c].pc = "get" => req[c].round = acked
        /\ req[c].pc = "serve" => \A t \in TagsOf[req[c].key] : req[c].held[t] >= req[c].round[t]
        /\ req[c].pc \in {"delKeys", "delTag"} =>
               \A k \in tagKeys[req[c].tag] :
                   cache[k] = NoEntry \/ (req[c].pc = "delKeys" /\ k \in req[c].keys)

CurrentInv == NothingMissed /\ CallIsCurrent

LEMMA CurrentInvInit == AlwaysConnected /\ Init => CurrentInv
<1> SUFFICES ASSUME AlwaysConnected, Init PROVE CurrentInv
  OBVIOUS
<1>1. \A c \in Calls : req[c].pc = "idle"
  BY IdleIsRequest DEF Init
<1> QED BY <1>1 DEF Init, AlwaysConnected, CurrentInv, NothingMissed, CallIsCurrent

\* The one call steps to r; what it holds then is current.
LEMMA CurrentStep ==
  ASSUME TypeInv, OneAtATime, NothingMissed', NEW c \in Calls, NEW r \in Request, Become(c, r),
         r.pc \in {"set", "redisSet"} => r.held = asked',
         r.pc = "get" => r.round = acked',
         r.pc = "serve" => \A t \in TagsOf[r.key] : r.held[t] >= r.round[t],
         r.pc \in {"delKeys", "delTag"} =>
             \A k \in tagKeys'[r.tag] :
                 cache'[k] = NoEntry \/ (r.pc = "delKeys" /\ k \in r.keys)
  PROVE  CurrentInv'
<1>1. \A d \in Calls : req'[d] = r
  BY Becomes DEF TypeInv, TypeOK, OneAtATime
<1> QED BY <1>1 DEF CurrentInv, CallIsCurrent

\* A step that leaves Redis as it is, to a stage that holds nothing to be judged.
LEMMA CurrentQuiet ==
  ASSUME TypeInv, OneAtATime, CurrentInv, NEW c \in Calls, NEW r \in Request, Become(c, r),
         r.pc \notin {"set", "redisSet", "get", "serve", "delKeys", "delTag"},
         UNCHANGED <<ready, cache, missed>>, unmapped' \subseteq unmapped
  PROVE  CurrentInv'
<1>1. NothingMissed'
  BY DEF CurrentInv, NothingMissed
<1> QED BY <1>1, CurrentStep

LEMMA GetSetCurrent ==
  ASSUME TypeInv, StaleInv, CurrentInv, OneAtATime, AlwaysConnected, NEW c \in Calls,
         \/ Get(c) \/ Serve(c) \/ Render(c) \/ Set(c) \/ Throw(c) \/ MemorySet(c)
         \/ Delete(c) \/ RedisSadd(c)
  PROVE  CurrentInv'
<1> DEFINE call == req[c]
<1>1. /\ call \in Request /\ call.pod \in Pods /\ call.key \in Keys /\ call.tags \in SUBSET Tags
      /\ Idle \in Request /\ Idle.pc = "idle"
  BY IdleIsRequest DEF TypeInv, TypeOK, Request
<1>2. Client(c)
  BY <1>1 DEF Client, AlwaysConnected, CurrentInv, NothingMissed
<1>3. UNCHANGED <<ready, cache, missed>> /\ unmapped' \subseteq unmapped
  BY DEF Get, Serve, Render, Set, Throw, MemorySet, Delete, RedisSadd, redis, history
<1>4. NothingMissed'
  BY <1>3 DEF CurrentInv, NothingMissed
<1>5. CASE Serve(c) \/ Throw(c) \/ MemorySet(c)
  <2>1. Become(c, Idle)
    BY <1>5 DEF Serve, Throw, MemorySet
  <2> QED BY <1>1, <1>3, <2>1, CurrentQuiet
<1>6. CASE Get(c)
  <2> DEFINE e == cache[call.key]
             r == [call EXCEPT !.pc = IF e = NoEntry THEN "render" ELSE "serve", !.held = e]
  <2>1. Become(c, r) /\ call.pc = "get"
    BY <1>2, <1>6 DEF Get, Found, At
  <2>2. e \in Entry \cup {NoEntry}
    BY <1>1 DEF TypeInv, TypeOK
  <2>3. /\ r \in Request /\ r.pc = (IF e = NoEntry THEN "render" ELSE "serve")
        /\ r.held = e /\ r.key = call.key /\ r.round = call.round
    BY <1>1, <2>2 DEF Request, Stages
  <2>4. call.round = acked
    BY <2>1 DEF CurrentInv, CallIsCurrent
  <2>5. ASSUME e # NoEntry, NEW t \in TagsOf[call.key] PROVE e[t] >= acked[t]
    <3>1. t \in Tags /\ e[t] \in Nat /\ acked[t] \in Nat
      BY <1>1, <2>2, <2>5, TagsOfAssumption, BoundAssumption DEF Entry, TypeInv, TypeOK
    <3>2. ~(e[t] < acked[t])
      BY <1>1, <2>5, <3>1 DEF StaleInv, StaleHasCause, CurrentInv, NothingMissed
    <3> QED BY <3>1, <3>2
  <2> HIDE DEF r
  <2> QED BY <1>4, <2>1, <2>3, <2>4, <2>5, CurrentStep
<1>7. CASE Render(c)
  <2> DEFINE r == [call EXCEPT !.pc = "set", !.held = asked]
  <2>1. Become(c, r) /\ UNCHANGED asked
    BY <1>7 DEF Render, history
  <2>2. asked \in Entry
    BY BoundAssumption DEF Entry, TypeInv, TypeOK
  <2>3. r \in Request /\ r.pc = "set" /\ r.held = asked
    BY <1>1, <2>2 DEF Request, Stages
  <2> HIDE DEF r
  <2> QED BY <1>4, <2>1, <2>3, CurrentStep
<1>8. CASE Set(c)
  <2> DEFINE r == [call EXCEPT !.pc = "redisSet", !.tags = TagsOf[call.key]]
  <2>1. Become(c, r) /\ UNCHANGED asked /\ call.held = asked
    BY <1>2, <1>8 DEF Set, history, At, CurrentInv, CallIsCurrent
  <2>2. r \in Request /\ r.pc = "redisSet" /\ r.held = call.held
    BY <1>1, TagsOfAssumption DEF Request, Stages
  <2> HIDE DEF r
  <2> QED BY <1>4, <2>1, <2>2, CurrentStep
<1>9. CASE Delete(c)
  <2> DEFINE r == [call EXCEPT !.pc = "redisDel"]
  <2>1. Become(c, r)
    BY <1>2, <1>9 DEF Delete, Goto
  <2>2. r \in Request /\ r.pc = "redisDel"
    BY <1>1 DEF Request, Stages
  <2> HIDE DEF r
  <2> QED BY <1>3, <2>1, <2>2, CurrentQuiet
<1>10. CASE RedisSadd(c)
  <2>1. PICK t \in call.tags : Become(c, AfterSadd(c, call.tags \ {t}))
    BY <1>10 DEF RedisSadd
  <2> DEFINE r == AfterSadd(c, call.tags \ {t})
  <2>2. r \in Request /\ r.pc \in {"memorySet", "redisSadd"}
    BY <1>1, AfterSaddIs
  <2>3. Become(c, r)
    BY <2>1
  <2> HIDE DEF r
  <2> QED BY <1>3, <2>2, <2>3, CurrentQuiet
<1> QED BY <1>5, <1>6, <1>7, <1>8, <1>9, <1>10

\* What is stored is as current as the one call's render, and what is deleted
\* is in no tag set's way.
LEMMA StoreCurrent ==
  ASSUME TypeInv, CurrentInv, OneAtATime, NEW c \in Calls, RedisSet(c) \/ RedisDel(c)
  PROVE  CurrentInv'
<1> DEFINE call == req[c]
<1>1. /\ call \in Request /\ call.key \in Keys /\ call.tags \in SUBSET Tags
      /\ Idle \in Request /\ Idle.pc = "idle"
  BY IdleIsRequest DEF TypeInv, TypeOK, Request
<1>2. /\ cache \in [Keys -> Entry \cup {NoEntry}] /\ missed \in [Keys -> [Tags -> Causes]]
      /\ \A t \in Tags : asked[t] \in Nat
  BY BoundAssumption DEF TypeInv, TypeOK
<1>3. CASE RedisSet(c)
  <2> DEFINE r == AfterSadd(c, call.tags)
  <2>1. /\ cache' = [cache EXCEPT ![call.key] = call.held]
        /\ missed' = [missed EXCEPT ![call.key] =
                        [t \in Tags |-> IF call.held[t] < asked[t] THEN "overlap" ELSE "none"]]
        /\ unmapped' = unmapped \ ({call.key} \X Tags)
        /\ Become(c, r) /\ UNCHANGED ready
        /\ call.held = asked
    BY <1>3 DEF RedisSet, At, CurrentInv, CallIsCurrent
  <2>2. r \in Request /\ r.pc \in {"memorySet", "redisSadd"}
    BY <1>1, AfterSaddIs
  <2>3. ASSUME NEW k \in Keys, NEW t \in Tags PROVE missed'[k][t] = "none"
    <3>1. CASE k = call.key
      BY <1>1, <1>2, <2>1, <3>1
    <3>2. CASE k # call.key
      BY <1>2, <2>1, <3>2 DEF CurrentInv, NothingMissed
    <3> QED BY <3>1, <3>2
  <2>4. ASSUME NEW k \in Keys, NEW t \in Tags, <<k, t>> \in unmapped' PROVE cache'[k] = NoEntry
    <3>1. k # call.key /\ <<k, t>> \in unmapped
      BY <2>1, <2>4
    <3>2. cache[k] = NoEntry
      BY <3>1 DEF CurrentInv, NothingMissed
    <3> QED BY <1>2, <2>1, <3>1, <3>2
  <2>5. NothingMissed'
    BY <2>1, <2>3, <2>4 DEF CurrentInv, NothingMissed
  <2> HIDE DEF r
  <2> QED BY <2>1, <2>2, <2>5, CurrentStep
<1>4. CASE RedisDel(c)
  <2>1. Drop(call.key) /\ Become(c, Idle) /\ UNCHANGED <<ready, unmapped>>
    BY <1>4 DEF RedisDel, Forget
  <2>2. NothingMissed'
    BY <1>1, <1>2, <2>1 DEF Drop, CurrentInv, NothingMissed
  <2> QED BY <1>1, <2>1, <2>2, CurrentStep
<1> QED BY <1>3, <1>4

LEMMA RevalidateCurrent ==
  ASSUME TypeInv, CurrentInv, OneAtATime, AlwaysConnected, NEW c \in Calls, Revalidate(c)
  PROVE  CurrentInv'
<1>1. Client(c)
  BY DEF Client, AlwaysConnected, CurrentInv, NothingMissed, TypeInv, TypeOK, Request
<1>2. NextTag(c) /\ UNCHANGED <<ready, cache, missed, unmapped>>
  BY <1>1 DEF Revalidate, redis
<1>3. PICK r \in Request : Become(c, r) /\ r.pc \in {"idle", "smembers"}
  BY <1>2, NextTagLeads, IdleIsRequest
<1> QED BY <1>2, <1>3, CurrentQuiet

\* No entry to revalidate is missing from the tag set: no other call is storing
\* one, and the stored ones are mapped.
LEMMA SmembersCurrent ==
  ASSUME TypeInv, MappedInv, CurrentInv, OneAtATime, NEW c \in Calls, Smembers(c)
  PROVE  CurrentInv'
<1> DEFINE call == req[c]  t == call.tag
           pairs == {x \in Targets(c, {t}) : x[1] \notin tagKeys[t]}
<1>1. call \in Request /\ t \in Tags /\ tagKeys[t] \in SUBSET Keys
  BY DEF TypeInv, TypeOK, Smembers, At, InLoop
<1>2. pairs = {}
  <2> SUFFICES ASSUME NEW x \in pairs PROVE FALSE
    OBVIOUS
  <2>1. /\ x = <<x[1], t>> /\ x[1] \in Keys /\ cache[x[1]] # NoEntry /\ t \in TagsOf[x[1]]
        /\ x[1] \notin tagKeys[t]
    BY DEF Targets
  <2>2. ~Mapping(x[1], t)
    BY DEF Mapping, OneAtATime, Smembers, At
  <2>3. <<x[1], t>> \in unmapped
    BY <2>1, <2>2 DEF MappedInv, UnmappedHasCause
  <2> QED BY <1>1, <2>1, <2>3 DEF CurrentInv, NothingMissed
<1>3. missed' = [k \in Keys |-> [u \in Tags |-> missed[k][u]]] /\ UNCHANGED <<ready, cache, unmapped>>
  BY <1>2 DEF Smembers, Blame, redis
<1>4. NothingMissed'
  BY <1>3 DEF CurrentInv, NothingMissed
<1>5. CASE tagKeys[t] = {}
  <2>1. PICK r \in Request : Become(c, r) /\ r.pc \in {"idle", "smembers"}
    BY <1>5, NextTagLeads, IdleIsRequest DEF Smembers
  <2> QED BY <1>4, <2>1, CurrentStep
<1>6. CASE tagKeys[t] # {}
  <2> DEFINE r == [call EXCEPT !.pc = "delKeys", !.keys = tagKeys[t]]
  <2>1. Become(c, r) /\ UNCHANGED tagKeys
    BY <1>6 DEF Smembers, redis
  <2>2. r \in Request /\ r.pc = "delKeys" /\ r.tag = t /\ r.keys = tagKeys[t]
    BY <1>1 DEF Request, Stages
  <2> HIDE DEF r, pairs
  <2> QED BY <1>4, <2>1, <2>2, CurrentStep
<1> QED BY <1>5, <1>6

LEMMA DelCurrent ==
  ASSUME TypeInv, CurrentInv, OneAtATime, NEW c \in Calls, DelKey(c) \/ DelTag(c)
  PROVE  CurrentInv'
<1> DEFINE call == req[c]  t == call.tag
<1>1. /\ call \in Request /\ t \in Tags /\ call.keys \in SUBSET Keys
      /\ tagKeys \in [Tags -> SUBSET Keys] /\ missed \in [Keys -> [Tags -> Causes]]
      /\ cache \in [Keys -> Entry \cup {NoEntry}]
  BY DEF TypeInv, TypeOK, Request, DelKey, DelTag, At, InLoop
<1>2. CASE DelKey(c)
  <2>1. PICK k \in call.keys : Drop(k) /\ Become(c, AfterDel(c, call.keys \ {k}))
    BY <1>2 DEF DelKey
  <2> DEFINE r == AfterDel(c, call.keys \ {k})
  <2>2. /\ r \in Request /\ r.keys = call.keys \ {k} /\ r.tag = t
        /\ r.pc = IF r.keys = {} THEN "delTag" ELSE "delKeys"
    <3>1. call.keys \ {k} \in SUBSET Keys
      BY <1>1
    <3> QED BY <3>1, AfterDelIs
  <2>3. Become(c, r) /\ UNCHANGED <<ready, tagKeys, unmapped>> /\ call.pc = "delKeys"
    BY <1>2, <2>1 DEF DelKey, At
  <2>4. \A j \in Keys : cache'[j] = IF j = k THEN NoEntry ELSE cache[j]
    BY <1>1, <2>1, DropEmpties
  <2>5. NothingMissed'
    BY <1>1, <2>1, <2>3 DEF Drop, CurrentInv, NothingMissed
  <2>6. \A j \in tagKeys[t] : cache'[j] = NoEntry \/ j \in r.keys
    <3>1. \A j \in tagKeys[t] : cache[j] = NoEntry \/ j \in call.keys
      BY <2>3 DEF CurrentInv, CallIsCurrent
    <3> QED BY <1>1, <2>2, <2>4, <3>1
  <2> HIDE DEF r
  <2> QED BY <2>2, <2>3, <2>5, <2>6, CurrentStep
<1>3. CASE DelTag(c)
  <2>1. /\ unmapped' = unmapped \cup
                {<<k, t>> : k \in {j \in tagKeys[t] \cap spared[c] : ~Mapping(j, t)}}
        /\ UNCHANGED <<ready, cache, missed>> /\ NextTag(c) /\ call.pc = "delTag"
    BY <1>3 DEF DelTag, At
  <2>2. \A k \in tagKeys[t] : cache[k] = NoEntry
    BY <2>1 DEF CurrentInv, CallIsCurrent
  <2>3. NothingMissed'
    BY <2>1, <2>2 DEF CurrentInv, NothingMissed
  <2>4. PICK r \in Request : Become(c, r) /\ r.pc \in {"idle", "smembers"}
    BY <2>1, NextTagLeads, IdleIsRequest
  <2> QED BY <2>3, <2>4, CurrentStep
<1> QED BY <1>2, <1>3

LEMMA CurrentInvNext ==
  OneAtATime /\ AlwaysConnected /\ TypeInv /\ MappedInv /\ StaleInv /\ CurrentInv /\ [Next]_vars
    => CurrentInv'
<1> SUFFICES ASSUME OneAtATime, AlwaysConnected, TypeInv, MappedInv, StaleInv, CurrentInv,
                    [Next]_vars
             PROVE  CurrentInv'
  OBVIOUS
<1>1. CASE UNCHANGED vars
  BY <1>1 DEF vars, redis, history, CurrentInv, NothingMissed, CallIsCurrent
<1>2. ASSUME NEW c \in Calls,
             \/ Get(c) \/ Serve(c) \/ Render(c) \/ Set(c) \/ Throw(c) \/ MemorySet(c)
             \/ Delete(c) \/ RedisSadd(c) \/ RedisSet(c) \/ RedisDel(c)
             \/ Revalidate(c) \/ Smembers(c) \/ DelKey(c) \/ DelTag(c)
      PROVE  CurrentInv'
  BY <1>2, GetSetCurrent, StoreCurrent, RevalidateCurrent, SmembersCurrent, DelCurrent
<1>3. ASSUME NEW c \in Calls, Fail(c) PROVE FALSE
  BY <1>3 DEF Fail, CurrentInv, NothingMissed, TypeInv, TypeOK, Request
<1>4. ASSUME NEW c \in Calls, NEW o \in Pods,
             \/ \E k \in Keys : StartGet(c, o, k) \/ StartDelete(c, o, k)
             \/ \E ts \in SUBSET Tags \ {{}} : StartRevalidation(c, o, ts)
      PROVE  CurrentInv'
  <2>1. UNCHANGED <<ready, cache, missed, unmapped, acked>>
    BY <1>4 DEF StartGet, StartDelete, StartRevalidation, redis, history
  <2>2. NothingMissed'
    BY <2>1 DEF CurrentInv, NothingMissed
  <2>3. /\ req'[c] \in Request /\ Become(c, req'[c])
        /\ req'[c].pc \in {"get", "delete", "revalidate"}
        /\ req'[c].pc = "get" => req'[c].round = acked'
    BY <1>4, <2>1, Starts
  <2> QED BY <2>2, <2>3, CurrentStep
<1>5. ASSUME NEW o \in Pods, Kill(o) \/ Connect(o) \/ Disconnect(o) PROVE FALSE
  BY <1>5 DEF Kill, Connect, Disconnect, AlwaysConnected, CurrentInv, NothingMissed
<1>6. ASSUME NEW k \in Keys, Expire(k) PROVE CurrentInv'
  <2>1. \A j \in Keys : cache'[j] = IF j = k THEN NoEntry ELSE cache[j]
    BY <1>6, DropEmpties DEF Expire
  <2>2. Drop(k) /\ UNCHANGED <<ready, tagKeys, req, asked, acked, unmapped>>
    BY <1>6 DEF Expire
  <2>3. NothingMissed'
    BY <2>1, <2>2 DEF Drop, CurrentInv, NothingMissed, TypeInv, TypeOK
  <2>4. \A c \in Calls : req[c].pc \in {"delKeys", "delTag"} => tagKeys[req[c].tag] \in SUBSET Keys
    BY DEF TypeInv, TypeOK, InLoop
  <2>5. CallIsCurrent'
    BY <2>1, <2>2, <2>4 DEF CurrentInv, CallIsCurrent
  <2> QED BY <2>3, <2>5 DEF CurrentInv
<1> QED BY <1>1, <1>2, <1>3, <1>4, <1>5, <1>6 DEF Next

\* One call at a time, with Redis connected and nobody killed, no pod serves
\* content older than a revalidation that returned before the call began, for
\* any number of pods, keys, tags and calls: "stores ISR/data cache in Redis for
\* multi-pod consistency" (cache-handler.js:5).
THEOREM OneAtATimeIsCurrent ==
  ASSUME OneAtATime, AlwaysConnected
  PROVE  Spec => []ServedIsCurrent
<1>1. Init => MappedInv
  BY MappedInvInit
<1>2. Init => CurrentInv
  BY CurrentInvInit
<1>3. TypeInv /\ MappedInv /\ StaleInv /\ CurrentInv /\ [Next]_vars => CurrentInv'
  BY CurrentInvNext
<1>4. CurrentInv => ServedIsCurrent
  BY DEF CurrentInv, CallIsCurrent, ServedIsCurrent, At
<1> QED
  BY <1>1, <1>2, <1>3, <1>4, TypeInvariance, SpareInvariance, MappedInvNext, StaleInvInit,
     StaleInvNext, PTL
  DEF Spec
=============================================================================
