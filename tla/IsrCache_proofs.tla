-------------------------- MODULE IsrCache_proofs --------------------------
(***************************************************************************)
(* Proofs about IsrCache, for every set of calls, builds, pages and tags,  *)
(* every bound, and every choice of failing commands and dying calls.      *)
(***************************************************************************)
EXTENDS IsrCache, TLAPS

\* writeTags always has an input to choose: Idle's item is one.
LEMMA InputsNonEmpty == Inputs # {}
<1>1. PICK p \in Pages, t \in Tags : TRUE
  BY NonEmptyAssumption
<1>2. [tag |-> t, page |-> p] \in Inputs
  BY DEF Inputs
<1>. QED
  BY <1>2

\* The idle record is a request.
LEMMA IdleType == Idle \in Request
<1>1. (CHOOSE p \in Pages : TRUE) \in Pages
  BY NonEmptyAssumption
<1>2. (CHOOSE t \in Tags : TRUE) \in Tags
  BY NonEmptyAssumption
<1>3. (CHOOSE i \in Inputs : TRUE) \in Inputs
  BY InputsNonEmpty
<1>4. "idle" \in Stages
  BY DEF Stages
<1>. QED
  BY <1>1, <1>2, <1>3, <1>4 DEF Idle, Request

\* buildKey yields a key of the pod's build.
LEMMA KeyType ==
  ASSUME TypeOK, NEW c \in Calls
  PROVE  KeyOf(c) \in Keys
BY BuildOfAssumption DEF TypeOK, KeyOf, Keys, Request

\* A call that becomes a well-typed record leaves req well typed.
LEMMA BecomeType ==
  ASSUME TypeOK, NEW c \in Calls, NEW r \in Request, Become(c, r)
  PROVE  req' \in [Calls -> Request]
BY DEF TypeOK, Become

\* Recording a cause leaves the causes well typed.
LEMMA BlameType ==
  ASSUME TypeOK, NEW t \in Tags, NEW lost, NEW why \in Causes, Blame(t, lost, why)
  PROVE  cause' \in [Keys -> [Tags -> Causes]]
BY DEF TypeOK, Blame

\* The record of a miss is well typed.
LEMMA ToRenderType ==
  ASSUME TypeOK, NEW c \in Calls
  PROVE  ToRender(c) \in Request
BY IdleType DEF TypeOK, ToRender, Request, Stages

\* The record of a stored entry is well typed.
LEMMA StoredType ==
  ASSUME TypeOK, NEW c \in Calls
  PROVE  Stored(c) \in Request
BY IdleType DEF TypeOK, Stored, Request, Stages

\* So is the record after an answer of the GET pipeline,
LEMMA JudgeType ==
  ASSUME TypeOK, NEW c \in Calls, NEW rest \in SUBSET Tags, NEW newer \in SUBSET Tags
  PROVE  Judge(c, rest, newer) \in Request
<1>. DEFINE stage == IF rest # {} THEN "readStamps" ELSE IF newer = {} THEN "serve" ELSE "clearStamps"
            visit == IF rest = {} THEN newer ELSE rest
<1>1. req[c] \in Request
  BY DEF TypeOK
<1>2. stage \in Stages /\ visit \in SUBSET Tags
  BY DEF Stages
<1>3. ASSUME NEW s \in Stages, NEW v \in SUBSET Tags
      PROVE  [req[c] EXCEPT !.pc = s, !.pending = v, !.stale = newer] \in Request
  BY <1>1 DEF Request
<1>4. Judge(c, rest, newer) = [req[c] EXCEPT !.pc = stage, !.pending = visit, !.stale = newer]
  BY DEF Judge
<1>. HIDE DEF stage, visit
<1>. QED
  BY <1>2, <1>3, <1>4

\* after a DEL of the clearing pipeline,
LEMMA ClearedType ==
  ASSUME TypeOK, NEW c \in Calls, NEW t \in Tags
  PROVE  Cleared(c, t) \in Request
BY ToRenderType DEF TypeOK, Cleared, Request

\* and after each command of the writeTags pipeline.
LEMMA NextInputType ==
  ASSUME TypeOK, NEW c \in Calls
  PROVE  NextInput(c) \in Request /\ AfterAddTag(c) \in Request
BY IdleType DEF TypeOK, NextInput, AfterAddTag, Request, Stages

\* Registering tags leaves req well typed.
LEMMA RegisterType ==
  ASSUME TypeOK, NEW c \in Calls, NEW tags \in SUBSET Tags, Register(c, tags)
  PROVE  req' \in [Calls -> Request]
<1>1. {[tag |-> t, page |-> req[c].page] : t \in tags} \in SUBSET Inputs
  BY DEF TypeOK, Request, Inputs
<1>2. req[c] \in Request /\ "addPath" \in Stages
  BY DEF TypeOK, Stages
<1>3. ASSUME NEW inputs \in SUBSET Inputs
      PROVE  [req[c] EXCEPT !.pc = "addPath", !.todo = inputs] \in Request
  BY <1>2 DEF Request
<1>4. [req[c] EXCEPT !.pc = "addPath", !.todo = {[tag |-> t, page |-> req[c].page] : t \in tags}]
        \in Request
  BY <1>1, <1>3
<1>. QED
  BY <1>4, IdleType DEF Register, Become, TypeOK

\* The record of a revalidation that knows its paths is well typed.
LEMMA FoundType ==
  ASSUME TypeOK, NEW c \in Calls, NEW paths \in SUBSET Pages
  PROVE  Found(c, paths) \in Request
<1>1. {[tag |-> req[c].tag, page |-> p] : p \in paths} \in SUBSET Inputs
  BY DEF TypeOK, Request, Inputs
<1>. QED
  BY <1>1, IdleType DEF TypeOK, Found, Request, Stages

\* Acknowledging a revalidation leaves acked well typed.
LEMMA AcknowledgeType ==
  ASSUME TypeOK, NEW c \in Calls, Acknowledge(c)
  PROVE  acked' \in [Tags -> Nat]
BY DEF TypeOK, Acknowledge, Request
----------------------------------------------------------------------------
(* Type correctness.  It needs HandIsFull: StampEntry writes into the      *)
(* entry in hand, so there has to be one.                                  *)

HandStages == {"readTags", "readStamps", "clearStamps", "serve", "stampEntry", "writeEntry"}

HandIsFull == \A c \in Calls : req[c].pc \in HandStages => req[c].held \in Entry

\* A page request's steps keep the types.
LEMMA LookupTypes ==
  ASSUME TypeOK, NEW c \in Calls,
         \/ ReadEntry(c) \/ ReadTags(c) \/ ReadStamp(c) \/ ClearStamp(c) \/ Serve(c)
         \/ \E p \in Pages : StartRequest(c, p)
  PROVE  TypeOK'
<1>1. req[c] \in Request
  BY DEF TypeOK
<1>2. CASE ReadEntry(c)
  <2>1. ASSUME entry[KeyOf(c)] # NoEntry
        PROVE  [req[c] EXCEPT !.pc = "readTags", !.held = entry[KeyOf(c)]] \in Request
    <3>1. entry[KeyOf(c)] \in Entry \cup {NoEntry} /\ "readTags" \in Stages
      BY KeyType DEF TypeOK, Stages
    <3>. QED
      BY <1>1, <3>1 DEF Request
  <2>2. req' \in [Calls -> Request]
    BY <1>2, <2>1, ToRenderType, BecomeType DEF ReadEntry
  <2>. QED
    BY <1>2, <2>2 DEF ReadEntry, TypeOK, redis, history
<1>3. CASE ReadTags(c)
  <2>1. pathTags[req[c].page] \in SUBSET Tags /\ {"serve", "readStamps"} \subseteq Stages
    BY <1>1 DEF TypeOK, Request, Stages
  <2>2. ASSUME NEW s \in Stages, NEW v \in SUBSET Tags
        PROVE  [req[c] EXCEPT !.pc = s, !.pending = v] \in Request
    BY <1>1 DEF Request
  <2>3. req' \in [Calls -> Request]
    BY <1>3, <2>1, <2>2, BecomeType DEF ReadTags
  <2>. QED
    BY <1>3, <2>3 DEF ReadTags, TypeOK, redis, history
<1>4. CASE ReadStamp(c)
  <2>1. PICK t \in req[c].pending :
          Become(c, Judge(c, req[c].pending \ {t},
                          IF IsNewer(revalidatedAt[t], req[c].held.lastModified)
                              THEN req[c].stale \cup {t} ELSE req[c].stale))
    BY <1>4 DEF ReadStamp
  <2>2. t \in Tags /\ req[c].pending \ {t} \in SUBSET Tags
        /\ req[c].stale \in SUBSET Tags /\ req[c].stale \cup {t} \in SUBSET Tags
    BY <1>1 DEF Request
  <2>3. req' \in [Calls -> Request]
    BY <2>1, <2>2, JudgeType, BecomeType
  <2>. QED
    BY <1>4, <2>3 DEF ReadStamp, TypeOK, redis, history
<1>5. CASE ClearStamp(c)
  <2>1. PICK t \in req[c].pending :
          /\ revalidatedAt' = [revalidatedAt EXCEPT ![t] = 0]
          /\ Blame(t, {k \in Carriers(t) : entry[k].lastModified < revalidatedAt[t]}, "consumed")
          /\ Become(c, Cleared(c, t))
    BY <1>5 DEF ClearStamp
  <2>2. t \in Tags /\ "consumed" \in Causes
    BY <1>1 DEF Request, Causes
  <2>3. req' \in [Calls -> Request] /\ cause' \in [Keys -> [Tags -> Causes]]
    BY <2>1, <2>2, ClearedType, BecomeType, BlameType
  <2>4. revalidatedAt' \in [Tags -> Nat]
    BY <2>1 DEF TypeOK
  <2>. QED
    BY <1>5, <2>3, <2>4 DEF ClearStamp, TypeOK
<1>6. CASE Serve(c)
  BY <1>6, IdleType, BecomeType DEF Serve, TypeOK, redis, history
<1>7. ASSUME NEW p \in Pages, StartRequest(c, p)
      PROVE  TypeOK'
  <2>1. [Idle EXCEPT !.pc = "readEntry", !.page = p] \in Request
    BY IdleType DEF Request, Stages
  <2>2. req' \in [Calls -> Request]
    BY <1>7, <2>1, BecomeType DEF StartRequest
  <2>. QED
    BY <1>7, <2>2 DEF StartRequest, TypeOK, redis, history
<1>. QED
  BY <1>2, <1>3, <1>4, <1>5, <1>6, <1>7

\* A page request's stores and its registration of tags keep the types.  At
\* stampEntry there must be an entry in hand to stamp.
LEMMA StoreTypes ==
  ASSUME TypeOK, HandIsFull, NEW c \in Calls,
         Render(c) \/ StampEntry(c) \/ WriteEntry(c) \/ ReadStored(c)
  PROVE  TypeOK'
<1>1. req[c] \in Request
  BY DEF TypeOK
<1>2. CASE Render(c)
  <2>1. [seen |-> asked, lastModified |-> 0] \in Entry /\ "stampEntry" \in Stages
    BY BoundsAssumption DEF TypeOK, Entry, Stages
  <2>2. [req[c] EXCEPT !.pc = "stampEntry", !.held = [seen |-> asked, lastModified |-> 0]]
          \in Request
    BY <1>1, <2>1 DEF Request
  <2>3. req' \in [Calls -> Request]
    BY <1>2, <2>2, BecomeType DEF Render
  <2>. QED
    BY <1>2, <2>3 DEF Render, TypeOK, redis, history
<1>3. CASE StampEntry(c)
  <2>1. req[c].held \in Entry /\ clock \in Nat /\ "writeEntry" \in Stages
    BY <1>3 DEF StampEntry, HandIsFull, HandStages, At, TypeOK, Stages
  <2>2. [req[c].held EXCEPT !.lastModified = clock] \in Entry
    BY <2>1 DEF Entry
  <2>3. ASSUME NEW e \in Entry
        PROVE  [req[c] EXCEPT !.pc = "writeEntry", !.held = e] \in Request
    BY <1>1, <2>1 DEF Request
  <2>4. [req[c] EXCEPT !.pc = "writeEntry", !.held.lastModified = clock]
          = [req[c] EXCEPT !.pc = "writeEntry", !.held = [@ EXCEPT !.lastModified = clock]]
    BY <1>1 DEF Request
  <2>5. req' \in [Calls -> Request]
    BY <1>3, <2>2, <2>3, <2>4, BecomeType DEF StampEntry
  <2>. QED
    BY <1>3, <2>5 DEF StampEntry, TypeOK, redis, history
<1>4. CASE WriteEntry(c)
  <2>1. req' \in [Calls -> Request]
    BY <1>4, StoredType, BecomeType DEF WriteEntry
  <2>2. entry' \in [Keys -> Entry \cup {NoEntry}]
    <3>1. req[c].held \in Entry \cup {NoEntry}
      BY <1>1 DEF Request
    <3>. QED
      BY <1>4, <3>1 DEF WriteEntry, TypeOK
  <2>3. cause' \in [Keys -> [Tags -> Causes]]
    <3>1. "overlap" \in Causes /\ "none" \in Causes
      BY DEF Causes
    <3>2. [t \in Tags |-> IF req[c].held.seen[t] < asked[t] THEN "overlap" ELSE "none"]
            \in [Tags -> Causes]
      BY <3>1
    <3>. QED
      BY <1>4, <3>2 DEF WriteEntry, TypeOK
  <2>. QED
    BY <1>4, <2>1, <2>2, <2>3 DEF WriteEntry, TypeOK
<1>5. CASE ReadStored(c)
  <2>1. TagsOf[req[c].page] \ pathTags[req[c].page] \in SUBSET Tags
    BY <1>1, TagsOfAssumption DEF Request
  <2>2. req' \in [Calls -> Request]
    BY <1>5, <2>1, RegisterType DEF ReadStored
  <2>. QED
    BY <1>5, <2>2 DEF ReadStored, TypeOK, redis, history
<1>. QED
  BY <1>2, <1>3, <1>4, <1>5

\* writeTags, with and without stamps, and getByTag before it.
LEMMA WriteTypes ==
  ASSUME TypeOK, NEW c \in Calls,
         \/ AddPath(c) \/ AddTag(c) \/ SetStamp(c) \/ ReadPaths(c)
         \/ \E t \in Tags : StartRevalidation(c, t)
  PROVE  TypeOK'
<1>1. req[c] \in Request
  BY DEF TypeOK
<1>2. CASE AddPath(c)
  <2>1. PICK i \in req[c].todo :
          /\ tagPaths' = [tagPaths EXCEPT ![i.tag] = @ \cup {i.page}]
          /\ Become(c, [req[c] EXCEPT !.pc = "addTag", !.item = i, !.todo = @ \ {i}])
    BY <1>2 DEF AddPath
  <2>2. i \in Inputs /\ req[c].todo \ {i} \in SUBSET Inputs /\ "addTag" \in Stages
    BY <1>1 DEF Request, Stages
  <2>3. [req[c] EXCEPT !.pc = "addTag", !.item = i, !.todo = @ \ {i}] \in Request
    BY <1>1, <2>2 DEF Request
  <2>4. req' \in [Calls -> Request]
    BY <2>1, <2>3, BecomeType
  <2>5. tagPaths' \in [Tags -> SUBSET Pages]
    BY <2>1, <2>2 DEF TypeOK, Inputs
  <2>. QED
    BY <1>2, <2>4, <2>5 DEF AddPath, TypeOK, history
<1>3. CASE AddTag(c)
  <2>1. req' \in [Calls -> Request]
    BY <1>3, NextInputType, BecomeType DEF AddTag
  <2>2. req[c].item \in Inputs
    BY <1>1 DEF Request
  <2>3. pathTags' \in [Pages -> SUBSET Tags]
    BY <1>3, <2>2 DEF AddTag, TypeOK, Inputs
  <2>. QED
    BY <1>3, <2>1, <2>3 DEF AddTag, TypeOK, history
<1>4. CASE SetStamp(c)
  <2>1. req[c].tag \in Tags /\ req[c].now \in Nat /\ {"tie", "regress"} \subseteq Causes
    BY <1>1 DEF Request, Causes
  <2>2. revalidatedAt' \in [Tags -> Nat]
    BY <1>4, <2>1 DEF SetStamp, TypeOK
  <2>3. cause' \in [Keys -> [Tags -> Causes]]
    BY <1>4, <2>1, BlameType DEF SetStamp
  <2>4. req' \in [Calls -> Request] /\ acked' \in [Tags -> Nat]
    BY <1>4, NextInputType, BecomeType, AcknowledgeType DEF SetStamp
  <2>. QED
    BY <1>4, <2>2, <2>3, <2>4 DEF SetStamp, TypeOK
<1>5. CASE ReadPaths(c)
  <2>1. req[c].tag \in Tags /\ tagPaths[req[c].tag] \in SUBSET Pages /\ "unregistered" \in Causes
    BY <1>1 DEF TypeOK, Request, Causes
  <2>2. cause' \in [Keys -> [Tags -> Causes]]
    BY <1>5, <2>1, BlameType DEF ReadPaths
  <2>3. req' \in [Calls -> Request]
    BY <1>5, <2>1, FoundType, BecomeType DEF ReadPaths
  <2>4. acked' \in [Tags -> Nat]
    BY <1>5, AcknowledgeType DEF ReadPaths, TypeOK
  <2>. QED
    BY <1>5, <2>2, <2>3, <2>4 DEF ReadPaths, TypeOK, redis
<1>6. ASSUME NEW t \in Tags, StartRevalidation(c, t)
      PROVE  TypeOK'
  <2>1. clock \in Nat /\ asked[t] + 1 \in Nat /\ asked[t] + 1 \in 0..MaxRevalidations
    <3>1. clock \in 1..MaxClock /\ asked[t] \in 0..MaxRevalidations
      BY DEF TypeOK
    <3>2. asked[t] < MaxRevalidations
      BY <1>6 DEF StartRevalidation
    <3>. QED
      BY <3>1, <3>2, BoundsAssumption
  <2>2. [Idle EXCEPT !.pc = "readPaths", !.tag = t, !.now = clock, !.round = asked[t] + 1]
          \in Request
    BY <2>1, IdleType DEF Request, Stages
  <2>3. req' \in [Calls -> Request]
    BY <1>6, <2>2, BecomeType DEF StartRevalidation
  <2>4. asked' \in [Tags -> 0..MaxRevalidations]
    BY <1>6, <2>1 DEF StartRevalidation, TypeOK
  <2>. QED
    BY <1>6, <2>3, <2>4 DEF StartRevalidation, TypeOK, redis, history
<1>. QED
  BY <1>2, <1>3, <1>4, <1>5, <1>6

\* Failed commands, dead pods, the clock and expiry.
LEMMA FailTypes ==
  ASSUME TypeOK, NEW c \in Calls, Fail(c)
  PROVE  TypeOK'
<1>1. req[c] \in Request
  BY DEF TypeOK
<1>2. SUFFICES /\ req' \in [Calls -> Request]
               /\ acked' \in [Tags -> Nat]
               /\ cause' \in [Keys -> [Tags -> Causes]]
  BY DEF Fail, TypeOK, redis
<1>3. ASSUME UNCHANGED history
      PROVE  acked' \in [Tags -> Nat] /\ cause' \in [Keys -> [Tags -> Causes]]
  BY <1>3 DEF TypeOK, history
<1>4. CASE req[c].pc \in {"readEntry", "readTags", "writeEntry"} /\ FailRead(c)
  <2>1. [req[c] EXCEPT !.pc = "serve"] \in Request
    BY <1>1 DEF Request, Stages
  <2>2. req' \in [Calls -> Request]
    BY <1>4, <2>1, ToRenderType, StoredType, BecomeType DEF FailRead, At
  <2>. QED
    BY <1>3, <1>4, <2>2 DEF FailRead
<1>5. CASE req[c].pc \in {"readStamps", "clearStamps"} /\ FailPipelineRead(c)
  <2>1. PICK t \in req[c].pending :
          Become(c, IF At(c, "readStamps")
                        THEN Judge(c, req[c].pending \ {t}, req[c].stale)
                        ELSE Cleared(c, t))
    BY <1>5 DEF FailPipelineRead
  <2>2. t \in Tags /\ req[c].pending \ {t} \in SUBSET Tags /\ req[c].stale \in SUBSET Tags
    BY <1>1 DEF Request
  <2>3. req' \in [Calls -> Request]
    BY <2>1, <2>2, JudgeType, ClearedType, BecomeType
  <2>. QED
    BY <1>3, <1>5, <2>3 DEF FailPipelineRead
<1>6. CASE At(c, "readStored") /\ Register(c, TagsOf[req[c].page]) /\ UNCHANGED history
  <2>1. TagsOf[req[c].page] \in SUBSET Tags
    BY <1>1, TagsOfAssumption DEF Request
  <2>. QED
    BY <1>3, <1>6, <2>1, RegisterType
<1>7. CASE At(c, "addPath") /\ FailAddPath(c)
  <2>1. PICK i \in req[c].todo :
          Become(c, [req[c] EXCEPT !.pc = "addTag", !.item = i, !.todo = @ \ {i}])
    BY <1>7 DEF FailAddPath
  <2>2. i \in Inputs /\ req[c].todo \ {i} \in SUBSET Inputs /\ "addTag" \in Stages
    BY <1>1 DEF Request, Stages
  <2>3. [req[c] EXCEPT !.pc = "addTag", !.item = i, !.todo = @ \ {i}] \in Request
    BY <1>1, <2>2 DEF Request
  <2>. QED
    BY <1>3, <1>7, <2>1, <2>3, BecomeType DEF FailAddPath
<1>8. CASE At(c, "addTag") /\ FailAddTag(c)
  <2>1. req[c].item.tag \in Tags /\ "fault" \in Causes
    BY <1>1 DEF Request, Inputs, Causes
  <2>2. cause' \in [Keys -> [Tags -> Causes]]
    BY <1>8, <2>1, BlameType DEF FailAddTag
  <2>3. req' \in [Calls -> Request]
    BY <1>8, NextInputType, BecomeType DEF FailAddTag
  <2>. QED
    BY <1>8, <2>2, <2>3 DEF FailAddTag, TypeOK
<1>9. CASE req[c].pc \in {"readPaths", "setStamp"} /\ FailRevalidation(c)
  <2>1. req[c].tag \in Tags /\ "fault" \in Causes
    BY <1>1 DEF Request, Causes
  <2>2. cause' \in [Keys -> [Tags -> Causes]]
    BY <1>9, <2>1, BlameType DEF FailRevalidation
  <2>. QED
    BY <1>9, <2>2, AcknowledgeType, NextInputType, BecomeType DEF FailRevalidation
<1>. QED
  BY <1>4, <1>5, <1>6, <1>7, <1>8, <1>9 DEF Fail

\* Death, time and expiry preserve the types.
LEMMA EnvironmentTypes ==
  ASSUME TypeOK,
         \/ \E c \in Calls : Die(c)
         \/ Tick
         \/ \E k \in Keys : Expire(k)
  PROVE  TypeOK'
<1>1. ASSUME NEW c \in Calls, Die(c)
      PROVE  TypeOK'
  BY <1>1, IdleType, BecomeType DEF Die, TypeOK, redis, history
<1>2. CASE Tick
  <2>1. clock \in 1..MaxClock /\ MaxClock \in Nat
    BY BoundsAssumption DEF TypeOK
  <2>2. clock' \in 1..MaxClock
    BY <1>2, <2>1 DEF Tick
  <2>. QED
    BY <1>2, <2>2 DEF Tick, TypeOK, redis, history
<1>3. ASSUME NEW k \in Keys, Expire(k)
      PROVE  TypeOK'
  <2>1. [t \in Tags |-> "none"] \in [Tags -> Causes]
    BY DEF Causes
  <2>2. /\ entry' \in [Keys -> Entry \cup {NoEntry}]
        /\ cause' \in [Keys -> [Tags -> Causes]]
    BY <1>3, <2>1 DEF Expire, TypeOK
  <2>. QED
    BY <1>3, <2>2 DEF Expire, TypeOK
<1>. QED
  BY <1>1, <1>2, <1>3

\* What a call becomes decides whether the hands stay full.
LEMMA HandBecome ==
  ASSUME TypeOK, HandIsFull, NEW c \in Calls, NEW r, Become(c, r),
         r.pc \in HandStages => r.held \in Entry
  PROVE  HandIsFull'
BY DEF TypeOK, HandIsFull, Become

\* These leave nothing in hand that would be needed.
LEMMA HandEmptied ==
  ASSUME TypeOK, NEW c \in Calls
  PROVE  /\ Idle.pc \notin HandStages
         /\ ToRender(c).pc \notin HandStages
         /\ Stored(c).pc \notin HandStages
         /\ NextInput(c).pc \notin HandStages
         /\ \A paths : Found(c, paths).pc \notin HandStages
         /\ At(c, "addTag") => AfterAddTag(c).pc \notin HandStages
<1>1. req[c] \in Request
  BY DEF TypeOK
<1>. QED
  BY <1>1 DEF Idle, ToRender, Stored, NextInput, Found, AfterAddTag, HandStages, Request

\* Registering tags needs no entry in hand.
LEMMA HandRegister ==
  ASSUME TypeOK, HandIsFull, NEW c \in Calls, NEW tags, Register(c, tags)
  PROVE  HandIsFull'
<1>. DEFINE r == [req[c] EXCEPT !.pc = "addPath",
                                !.todo = {[tag |-> t, page |-> req[c].page] : t \in tags}]
<1>1. req[c] \in Request
  BY DEF TypeOK
<1>2. r.pc = "addPath"
  BY <1>1 DEF Request
<1>3. Become(c, IF tags = {} THEN Idle ELSE r)
  BY DEF Register
<1>4. (IF tags = {} THEN Idle ELSE r).pc \notin HandStages
  BY <1>2, HandEmptied DEF HandStages
<1>. QED
  BY <1>3, <1>4, HandBecome

\* Judge and Cleared keep the entry that was in hand.
LEMMA HandKept ==
  ASSUME TypeOK, HandIsFull, NEW c \in Calls, req[c].pc \in {"readStamps", "clearStamps"},
         NEW t, NEW rest, NEW newer
  PROVE  /\ Judge(c, rest, newer).held \in Entry
         /\ Cleared(c, t).pc \in HandStages => Cleared(c, t).held \in Entry
<1>1. req[c] \in Request /\ req[c].held \in Entry
  BY DEF TypeOK, HandIsFull, HandStages
<1>2. Judge(c, rest, newer).held = req[c].held
  BY <1>1 DEF Judge, Request
<1>3. [req[c] EXCEPT !.pending = @ \ {t}].held = req[c].held
  BY <1>1 DEF Request
<1>. QED
  BY <1>1, <1>2, <1>3, HandEmptied DEF Cleared

\* Every step of a call leaves the stages that need an entry with one.
LEMMA HandStep ==
  ASSUME TypeOK, HandIsFull, NEW c \in Calls,
         \/ Step(c)
         \/ \E p \in Pages : StartRequest(c, p)
         \/ \E t \in Tags : StartRevalidation(c, t)
  PROVE  HandIsFull'
<1>1. req[c] \in Request
  BY DEF TypeOK
<1>2. req[c].pc \in HandStages => req[c].held \in Entry
  BY DEF HandIsFull
<1>3. CASE ReadEntry(c)
  <2>1. entry[KeyOf(c)] # NoEntry => entry[KeyOf(c)] \in Entry
    BY KeyType DEF TypeOK
  <2>2. [req[c] EXCEPT !.pc = "readTags", !.held = entry[KeyOf(c)]].held = entry[KeyOf(c)]
    BY <1>1 DEF Request
  <2>. QED
    BY <1>3, <2>1, <2>2, HandEmptied, HandBecome DEF ReadEntry
<1>4. CASE ReadTags(c)
  <2>1. req[c].held \in Entry
    BY <1>2, <1>4 DEF ReadTags, At, HandStages
  <2>2. \A s, v : [req[c] EXCEPT !.pc = s, !.pending = v].held = req[c].held
    BY <1>1 DEF Request
  <2>. QED
    BY <1>4, <2>1, <2>2, HandBecome DEF ReadTags
<1>5. CASE ReadStamp(c)
  BY <1>5, HandKept, HandBecome DEF ReadStamp, At
<1>6. CASE ClearStamp(c)
  BY <1>6, HandKept, HandBecome DEF ClearStamp, At
<1>7. CASE Serve(c)
  BY <1>7, HandEmptied, HandBecome DEF Serve
<1>8. CASE Render(c)
  <2>1. [seen |-> asked, lastModified |-> 0] \in Entry
    BY BoundsAssumption DEF TypeOK, Entry
  <2>2. \A e : [req[c] EXCEPT !.pc = "stampEntry", !.held = e].held = e
    BY <1>1 DEF Request
  <2>. QED
    BY <1>8, <2>1, <2>2, HandBecome DEF Render
<1>9. CASE StampEntry(c)
  <2>1. req[c].held \in Entry /\ clock \in Nat
    BY <1>2, <1>9 DEF StampEntry, At, HandStages, TypeOK
  <2>2. [req[c] EXCEPT !.pc = "writeEntry", !.held.lastModified = clock].held
          = [req[c].held EXCEPT !.lastModified = clock]
    BY <1>1 DEF Request
  <2>3. [req[c].held EXCEPT !.lastModified = clock] \in Entry
    BY <2>1 DEF Entry
  <2>. QED
    BY <1>9, <2>2, <2>3, HandBecome DEF StampEntry
<1>10. CASE WriteEntry(c)
  BY <1>10, HandEmptied, HandBecome DEF WriteEntry
<1>11. CASE ReadStored(c)
  BY <1>11, HandRegister DEF ReadStored
<1>12. CASE AddPath(c)
  <2>1. \A i, todo : [req[c] EXCEPT !.pc = "addTag", !.item = i, !.todo = todo].pc = "addTag"
    BY <1>1 DEF Request
  <2>. QED
    BY <1>12, <2>1, HandBecome DEF AddPath, HandStages
<1>13. CASE AddTag(c)
  BY <1>13, HandEmptied, HandBecome DEF AddTag
<1>14. CASE SetStamp(c)
  BY <1>14, HandEmptied, HandBecome DEF SetStamp
<1>15. CASE ReadPaths(c)
  BY <1>15, HandEmptied, HandBecome DEF ReadPaths
<1>16. ASSUME NEW p \in Pages, StartRequest(c, p)
       PROVE  HandIsFull'
  <2>1. [Idle EXCEPT !.pc = "readEntry", !.page = p].pc \notin HandStages
    BY DEF Idle, HandStages
  <2>. QED
    BY <1>16, <2>1, HandBecome DEF StartRequest
<1>17. ASSUME NEW t \in Tags, StartRevalidation(c, t)
       PROVE  HandIsFull'
  <2>1. [Idle EXCEPT !.pc = "readPaths", !.tag = t, !.now = clock,
                     !.round = asked[t] + 1].pc \notin HandStages
    BY DEF Idle, HandStages
  <2>. QED
    BY <1>17, <2>1, HandBecome DEF StartRevalidation
<1>. QED
  BY <1>3, <1>4, <1>5, <1>6, <1>7, <1>8, <1>9, <1>10, <1>11, <1>12, <1>13, <1>14, <1>15,
     <1>16, <1>17 DEF Step

\* So do failed commands and death.
LEMMA HandFail ==
  ASSUME TypeOK, HandIsFull, NEW c \in Calls, Fail(c) \/ Die(c)
  PROVE  HandIsFull'
<1>1. req[c] \in Request
  BY DEF TypeOK
<1>2. CASE req[c].pc \in {"readEntry", "readTags", "writeEntry"} /\ FailRead(c)
  <2>1. At(c, "readTags") => req[c].held \in Entry
    BY DEF HandIsFull, HandStages, At
  <2>2. [req[c] EXCEPT !.pc = "serve"].held = req[c].held
    BY <1>1 DEF Request
  <2>. QED
    BY <1>2, <2>1, <2>2, HandEmptied, HandBecome DEF FailRead, At
<1>3. CASE req[c].pc \in {"readStamps", "clearStamps"} /\ FailPipelineRead(c)
  BY <1>3, HandKept, HandBecome DEF FailPipelineRead
<1>4. CASE At(c, "readStored") /\ Register(c, TagsOf[req[c].page])
  BY <1>4, HandRegister
<1>5. CASE At(c, "addPath") /\ FailAddPath(c)
  <2>1. \A i, todo : [req[c] EXCEPT !.pc = "addTag", !.item = i, !.todo = todo].pc = "addTag"
    BY <1>1 DEF Request
  <2>. QED
    BY <1>5, <2>1, HandBecome DEF FailAddPath, HandStages
<1>6. CASE At(c, "addTag") /\ FailAddTag(c)
  BY <1>6, HandEmptied, HandBecome DEF FailAddTag
<1>7. CASE req[c].pc \in {"readPaths", "setStamp"} /\ FailRevalidation(c)
  BY <1>7, HandEmptied, HandBecome DEF FailRevalidation
<1>8. CASE Die(c)
  BY <1>8, HandEmptied, HandBecome DEF Die
<1>. QED
  BY <1>2, <1>3, <1>4, <1>5, <1>6, <1>7, <1>8 DEF Fail

TypeInv == TypeOK /\ HandIsFull

\* The type invariant holds in an empty Redis.
LEMMA TypeInvInit == Init => TypeInv
<1>. SUFFICES ASSUME Init PROVE TypeInv
  OBVIOUS
<1>1. req \in [Calls -> Request] /\ \A c \in Calls : req[c].pc = "idle"
  BY IdleType DEF Init, Idle
<1>2. clock \in 1..MaxClock /\ asked \in [Tags -> 0..MaxRevalidations]
  BY BoundsAssumption DEF Init
<1>3. cause \in [Keys -> [Tags -> Causes]]
  BY DEF Init, Causes
<1>4. TypeOK
  BY <1>1, <1>2, <1>3 DEF Init, TypeOK
<1>. QED
  BY <1>1, <1>4 DEF TypeInv, HandIsFull, HandStages

\* Every step preserves the type invariant.
LEMMA TypeInvNext == TypeInv /\ [Next]_vars => TypeInv'
<1>. SUFFICES ASSUME TypeInv, [Next]_vars PROVE TypeInv'
  OBVIOUS
<1>. TypeOK /\ HandIsFull
  BY DEF TypeInv
<1>1. ASSUME NEW c \in Calls,
             \/ Step(c)
             \/ \E p \in Pages : StartRequest(c, p)
             \/ \E t \in Tags : StartRevalidation(c, t)
      PROVE  TypeInv'
  BY <1>1, HandStep, LookupTypes, StoreTypes, WriteTypes DEF Step, TypeInv
<1>2. ASSUME NEW c \in Calls, Fail(c) \/ Die(c)
      PROVE  TypeInv'
  BY <1>2, HandFail, FailTypes, EnvironmentTypes DEF TypeInv
<1>3. CASE Tick \/ \E k \in Keys : Expire(k)
  <2>1. req' = req
    BY <1>3 DEF Tick, Expire
  <2>. QED
    BY <1>3, <2>1, EnvironmentTypes DEF TypeInv, HandIsFull
<1>4. CASE UNCHANGED vars
  BY <1>4 DEF vars, redis, history, TypeInv, TypeOK, HandIsFull
<1>. QED
  BY <1>1, <1>2, <1>3, <1>4 DEF Next

\* Every reachable state is well typed, and every stage that uses the entry in
\* hand has one: no handler dereferences a missing entry.
THEOREM TypeInvariance == Spec => []TypeInv
BY TypeInvInit, TypeInvNext, PTL DEF Spec

\* TypeOK, the type invariant of the runs, holds in every reachable state of
\* the two Redis caches.
THEOREM TypeCorrect == Spec => []TypeOK
<1>1. TypeInv => TypeOK
  BY DEF TypeInv
<1>. QED
  BY <1>1, TypeInvariance, PTL
=============================================================================
