----------------------- MODULE IsrCacheSafety_proofs -----------------------
(***************************************************************************)
(* Proofs of two safety properties of IsrCache, for every set of calls,    *)
(* builds, pages and tags and every bound.                                 *)
(***************************************************************************)
EXTENDS IsrCache_proofs

----------------------------------------------------------------------------
(* IndexSound.  On its own it is not inductive: AddTag relies on the SADD  *)
(* that the same call sent before, hence the second conjunct.              *)

IndexInv ==
    /\ IndexSound
    /\ \A c \in Calls : At(c, "addTag") => req[c].item.page \in tagPaths[req[c].item.tag]

\* Empty indexes agree.
LEMMA IndexInit == Init => IndexInv
BY DEF Init, IndexInv, IndexSound, At, Idle

\* A step that leaves both indexes alone and sends no call to addTag.
LEMMA IndexUntouched ==
  ASSUME IndexInv, UNCHANGED <<tagPaths, pathTags>>,
         \A c \in Calls : req'[c].pc = "addTag" => req'[c] = req[c]
  PROVE  IndexInv'
BY DEF IndexInv, IndexSound, At

\* The stages that the next records of a call are in.
LEMMA IndexStages ==
  ASSUME TypeOK, NEW c \in Calls
  PROVE  /\ Idle.pc # "addTag"
         /\ ToRender(c).pc # "addTag"
         /\ Stored(c).pc # "addTag"
         /\ NextInput(c).pc # "addTag"
         /\ At(c, "addTag") => AfterAddTag(c).pc # "addTag"
         /\ \A paths : Found(c, paths).pc # "addTag"
         /\ \A rest, newer : Judge(c, rest, newer).pc # "addTag"
         /\ \A t : At(c, "clearStamps") => Cleared(c, t).pc # "addTag"
<1>1. req[c] \in Request
  BY DEF TypeOK
<1>. QED
  BY <1>1 DEF Idle, ToRender, Stored, NextInput, AfterAddTag, Found, Judge, Cleared, At, Request

\* A step of one call that writes no index and does not go to addTag.
LEMMA IndexBecome ==
  ASSUME TypeOK, IndexInv, NEW c \in Calls, NEW r, Become(c, r), r.pc # "addTag",
         UNCHANGED <<tagPaths, pathTags>>
  PROVE  IndexInv'
<1>1. \A d \in Calls : req'[d] = IF d = c THEN r ELSE req[d]
  BY DEF TypeOK, Become
<1>. QED
  BY <1>1, IndexUntouched

\* Choosing the tags to register writes no index.
LEMMA IndexRegister ==
  ASSUME TypeOK, IndexInv, NEW c \in Calls, NEW tags, Register(c, tags),
         UNCHANGED <<tagPaths, pathTags>>
  PROVE  IndexInv'
<1>. DEFINE r == [req[c] EXCEPT !.pc = "addPath",
                                !.todo = {[tag |-> t, page |-> req[c].page] : t \in tags}]
<1>1. req[c] \in Request
  BY DEF TypeOK
<1>2. r.pc = "addPath"
  BY <1>1 DEF Request
<1>3. Become(c, IF tags = {} THEN Idle ELSE r)
  BY DEF Register
<1>4. (IF tags = {} THEN Idle ELSE r).pc # "addTag"
  BY <1>2, IndexStages
<1>. QED
  BY <1>3, <1>4, IndexBecome

\* Looking up, rendering, storing and asking for a revalidation write no index.
LEMMA IndexLookup ==
  ASSUME TypeOK, IndexInv, NEW c \in Calls,
         \/ ReadEntry(c) \/ ReadTags(c) \/ ReadStamp(c) \/ ClearStamp(c) \/ Serve(c)
         \/ Render(c) \/ StampEntry(c) \/ WriteEntry(c) \/ ReadStored(c)
         \/ \E p \in Pages : StartRequest(c, p)
         \/ \E t \in Tags : StartRevalidation(c, t)
  PROVE  IndexInv'
<1>1. req[c] \in Request
  BY DEF TypeOK
<1>2. CASE ReadEntry(c)
  <2>1. \A e : [req[c] EXCEPT !.pc = "readTags", !.held = e].pc = "readTags"
    BY <1>1 DEF Request
  <2>. QED
    BY <1>2, <2>1, IndexStages, IndexBecome DEF ReadEntry, redis
<1>3. CASE ReadTags(c)
  <2>1. \A s, v : [req[c] EXCEPT !.pc = s, !.pending = v].pc = s
    BY <1>1 DEF Request
  <2>2. PICK s \in {"serve", "readStamps"}, v \in SUBSET Tags :
         Become(c, [req[c] EXCEPT !.pc = s, !.pending = v])
    BY <1>1, <1>3 DEF ReadTags, TypeOK, Request
  <2>3. UNCHANGED <<tagPaths, pathTags>>
    BY <1>3 DEF ReadTags, redis
  <2>4. [req[c] EXCEPT !.pc = s, !.pending = v].pc # "addTag"
    BY <2>1
  <2>. QED
    BY <2>2, <2>3, <2>4, IndexBecome
<1>4. CASE ReadStamp(c)
  BY <1>4, IndexStages, IndexBecome DEF ReadStamp, redis
<1>5. CASE ClearStamp(c)
  BY <1>5, IndexStages, IndexBecome DEF ClearStamp
<1>6. CASE Serve(c)
  BY <1>6, IndexStages, IndexBecome DEF Serve, redis
<1>7. CASE Render(c)
  <2>1. \A e : [req[c] EXCEPT !.pc = "stampEntry", !.held = e].pc = "stampEntry"
    BY <1>1 DEF Request
  <2>. QED
    BY <1>7, <2>1, IndexBecome DEF Render, redis
<1>8. CASE StampEntry(c)
  <2>1. [req[c] EXCEPT !.pc = "writeEntry", !.held.lastModified = clock].pc = "writeEntry"
    BY <1>1 DEF Request
  <2>. QED
    BY <1>8, <2>1, IndexBecome DEF StampEntry, redis
<1>9. CASE WriteEntry(c)
  BY <1>9, IndexStages, IndexBecome DEF WriteEntry
<1>10. CASE ReadStored(c)
  BY <1>10, IndexRegister DEF ReadStored, redis
<1>11. ASSUME NEW p \in Pages, StartRequest(c, p)
       PROVE  IndexInv'
  <2>1. [Idle EXCEPT !.pc = "readEntry", !.page = p].pc # "addTag"
    BY DEF Idle
  <2>. QED
    BY <1>11, <2>1, IndexBecome DEF StartRequest, redis
<1>12. ASSUME NEW t \in Tags, StartRevalidation(c, t)
       PROVE  IndexInv'
  <2>1. [Idle EXCEPT !.pc = "readPaths", !.tag = t, !.now = clock,
                     !.round = asked[t] + 1].pc # "addTag"
    BY DEF Idle
  <2>. QED
    BY <1>12, <2>1, IndexBecome DEF StartRevalidation, redis
<1>. QED
  BY <1>2, <1>3, <1>4, <1>5, <1>6, <1>7, <1>8, <1>9, <1>10, <1>11, <1>12

\* SADD tag:{tag} comes first, SADD path:{page}:tags after it.
LEMMA IndexWriteTags ==
  ASSUME TypeOK, IndexInv, NEW c \in Calls,
         AddPath(c) \/ AddTag(c) \/ SetStamp(c) \/ ReadPaths(c)
  PROVE  IndexInv'
<1>1. req[c] \in Request
  BY DEF TypeOK
<1>2. CASE AddPath(c)
  <2>1. PICK i \in req[c].todo :
          /\ tagPaths' = [tagPaths EXCEPT ![i.tag] = @ \cup {i.page}]
          /\ Become(c, [req[c] EXCEPT !.pc = "addTag", !.item = i, !.todo = @ \ {i}])
    BY <1>2 DEF AddPath
  <2>2. i.tag \in Tags /\ i.page \in Pages
    BY <1>1 DEF Request, Inputs
  <2>3. \A t \in Tags : tagPaths[t] \subseteq tagPaths'[t]
    BY <2>1, <2>2 DEF TypeOK
  <2>4. i.page \in tagPaths'[i.tag]
    BY <2>1, <2>2 DEF TypeOK
  <2>5. [req[c] EXCEPT !.pc = "addTag", !.item = i, !.todo = @ \ {i}].item = i
    BY <1>1 DEF Request
  <2>6. \A d \in Calls : IF d = c THEN req'[d].item = i ELSE req'[d] = req[d]
    BY <2>1, <2>5 DEF TypeOK, Become
  <2>7. \A d \in Calls : req[d].item.tag \in Tags
    BY DEF TypeOK, Request, Inputs
  <2>8. \A d \in Calls : req'[d].pc = "addTag" => req'[d].item.page \in tagPaths'[req'[d].item.tag]
    BY <2>3, <2>4, <2>6, <2>7 DEF IndexInv, At
  <2>9. pathTags' = pathTags /\ pathTags \in [Pages -> SUBSET Tags]
    BY <1>2 DEF AddPath, TypeOK
  <2>. QED
    BY <2>3, <2>8, <2>9 DEF IndexInv, IndexSound, At
<1>3. CASE AddTag(c)
  <2>. DEFINE i == req[c].item
  <2>1. i.page \in tagPaths[i.tag] /\ i.tag \in Tags /\ i.page \in Pages
    BY <1>1, <1>3 DEF AddTag, IndexInv, At, Request, Inputs
  <2>2. pathTags' = [pathTags EXCEPT ![i.page] = @ \cup {i.tag}] /\ tagPaths' = tagPaths
    BY <1>3 DEF AddTag
  <2>3. IndexSound'
    BY <2>1, <2>2 DEF IndexInv, IndexSound, TypeOK
  <2>4. \A d \in Calls : req'[d] = IF d = c THEN AfterAddTag(c) ELSE req[d]
    BY <1>3 DEF AddTag, TypeOK, Become
  <2>5. AfterAddTag(c).pc # "addTag"
    BY <1>3, IndexStages DEF AddTag
  <2>. QED
    BY <2>2, <2>3, <2>4, <2>5 DEF IndexInv, At
<1>4. CASE SetStamp(c)
  BY <1>4, IndexStages, IndexBecome DEF SetStamp
<1>5. CASE ReadPaths(c)
  BY <1>5, IndexStages, IndexBecome DEF ReadPaths, redis
<1>. QED
  BY <1>2, <1>3, <1>4, <1>5

\* A failed SADD tag:{tag} would let the pipeline go on to SADD path:{page}:tags.
LEMMA IndexFail ==
  ASSUME TypeOK, IndexInv, "addPath" \notin Failing, NEW c \in Calls, Fail(c) \/ Die(c)
  PROVE  IndexInv'
<1>1. req[c] \in Request
  BY DEF TypeOK
<1>2. UNCHANGED <<tagPaths, pathTags>> /\ (Die(c) \/ ~At(c, "addPath"))
  BY DEF Fail, Die, At, redis
<1>3. CASE req[c].pc \in {"readEntry", "readTags", "writeEntry"} /\ FailRead(c)
  <2>1. [req[c] EXCEPT !.pc = "serve"].pc # "addTag"
    BY <1>1 DEF Request
  <2>. QED
    BY <1>2, <1>3, <2>1, IndexStages, IndexBecome DEF FailRead, At
<1>4. CASE req[c].pc \in {"readStamps", "clearStamps"} /\ FailPipelineRead(c)
  BY <1>2, <1>4, IndexStages, IndexBecome DEF FailPipelineRead, At
<1>5. CASE At(c, "readStored") /\ Register(c, TagsOf[req[c].page])
  BY <1>2, <1>5, IndexRegister
<1>6. CASE At(c, "addTag") /\ FailAddTag(c)
  BY <1>2, <1>6, IndexStages, IndexBecome DEF FailAddTag
<1>7. CASE req[c].pc \in {"readPaths", "setStamp"} /\ FailRevalidation(c)
  BY <1>2, <1>7, IndexStages, IndexBecome DEF FailRevalidation
<1>8. CASE Die(c)
  BY <1>2, <1>8, IndexStages, IndexBecome DEF Die
<1>. QED
  BY <1>2, <1>3, <1>4, <1>5, <1>6, <1>7, <1>8 DEF Fail

\* Every step preserves IndexInv, as long as SADD tag:{tag} does not fail.
LEMMA IndexNext ==
  ASSUME TypeInv, IndexInv, "addPath" \notin Failing, [Next]_vars
  PROVE  IndexInv'
<1>. TypeOK
  BY DEF TypeInv
<1>1. ASSUME NEW c \in Calls,
             \/ Step(c)
             \/ \E p \in Pages : StartRequest(c, p)
             \/ \E t \in Tags : StartRevalidation(c, t)
      PROVE  IndexInv'
  BY <1>1, IndexLookup, IndexWriteTags DEF Step
<1>2. ASSUME NEW c \in Calls, Fail(c) \/ Die(c)
      PROVE  IndexInv'
  BY <1>2, IndexFail
<1>3. CASE Tick \/ (\E k \in Keys : Expire(k)) \/ UNCHANGED vars
  <2>1. UNCHANGED <<req, tagPaths, pathTags>>
    BY <1>3 DEF Tick, Expire, vars, redis
  <2>. QED
    BY <2>1, IndexUntouched
<1>. QED
  BY <1>1, <1>2, <1>3 DEF Next

\* The tag cache's two indexes agree (redis-tag-cache.ts writeTags) in every
\* reachable state, whichever commands other than SADD tag:{tag} fail and
\* wherever pods die: getLastModified never consults a tag whose revalidation
\* could not find the page.
THEOREM IndexIsSound ==
  ASSUME "addPath" \notin Failing
  PROVE  Spec => []IndexSound
<1>1. Init => IndexInv
  BY IndexInit
<1>2. TypeInv /\ IndexInv /\ [Next]_vars => IndexInv'
  BY IndexNext
<1>3. IndexInv => IndexSound
  BY DEF IndexInv
<1>. QED
  BY <1>1, <1>2, <1>3, TypeInvariance, PTL DEF Spec

----------------------------------------------------------------------------
(* NoNeedlessMiss.  What makes it true is a fact about every entry a       *)
(* reader could come to compare with a stamp: whenever a stamp in Redis,   *)
(* or one that a running revalidation will SET, is newer than the entry,   *)
(* the entry's content is older than what that revalidation announced.     *)

Seen(e, a) == \A t \in Tags : e.seen[t] <= a[t]

Justified(e, a, stamps, r) ==
    /\ Seen(e, a)
    /\ \A t \in Tags : stamps[t] > e.lastModified => e.seen[t] < a[t]
    /\ \A d \in Calls : r[d].now > e.lastModified => e.seen[r[d].tag] < a[r[d].tag]

JudgeStages == {"readStamps", "clearStamps"}

MissInv ==
    /\ \A t \in Tags : revalidatedAt[t] <= clock
    /\ \A c \in Calls : req[c].now <= clock
    /\ \A k \in Keys : entry[k] # NoEntry => Justified(entry[k], asked, revalidatedAt, req)
    /\ \A c \in Calls : req[c].pc \in HandStages => Seen(req[c].held, asked)
    /\ \A c \in Calls : req[c].pc \in HandStages \ {"stampEntry"} =>
           Justified(req[c].held, asked, revalidatedAt, req)
    /\ \A c \in Calls : req[c].pc \in {"readEntry", "readTags"} => req[c].stale = {}
    /\ \A c \in Calls : req[c].pc \in JudgeStages =>
           \A t \in req[c].stale : req[c].held.seen[t] < asked[t]

\* What MissInv asks of the next record of a call.
Sound(r) ==
    /\ r.pc \in HandStages => Seen(r.held, asked)
    /\ r.pc \in HandStages \ {"stampEntry"} => Justified(r.held, asked, revalidatedAt, req)
    /\ r.pc \in {"readEntry", "readTags"} => r.stale = {}
    /\ r.pc \in JudgeStages => \A t \in r.stale : r.held.seen[t] < asked[t]

\* The stamps of the next state: as before, cleared, or what c had in hand.
StampedBy(c) ==
    \A t \in Tags : \/ revalidatedAt'[t] \in {revalidatedAt[t], 0}
                    \/ t = req[c].tag /\ revalidatedAt'[t] = req[c].now

\* What is justified stays so when stamps are cleared or set by a revalidation in
\* hand, and when no stamp in hand is new.
LEMMA JustifiedKept ==
  ASSUME TypeInv, TypeInv', NEW c \in Calls, NEW r, Become(c, r), UNCHANGED asked,
         r.now = 0 \/ (r.now = req[c].now /\ r.tag = req[c].tag), StampedBy(c),
         NEW e \in Entry, Justified(e, asked, revalidatedAt, req)
  PROVE  Justified(e, asked', revalidatedAt', req')
<1>1. e.lastModified \in Nat
  BY DEF Entry
<1>2. \A d \in Calls : req'[d] = IF d = c THEN r ELSE req[d]
  BY DEF TypeInv, TypeOK, Become
<1>3. ASSUME NEW t \in Tags, revalidatedAt'[t] > e.lastModified
      PROVE  e.seen[t] < asked'[t]
  BY <1>1, <1>3 DEF Justified, StampedBy
<1>4. ASSUME NEW d \in Calls, req'[d].now > e.lastModified
      PROVE  e.seen[req'[d].tag] < asked'[req'[d].tag]
  <2>1. d # c \/ r.now # 0
    BY <1>1, <1>2, <1>4
  <2>. QED
    BY <1>2, <1>4, <2>1 DEF Justified
<1>. QED
  BY <1>3, <1>4 DEF Justified

\* A step of one call preserves MissInv if the record it becomes is sound.
LEMMA MissBecome ==
  ASSUME TypeInv, TypeInv', MissInv, NEW c \in Calls, NEW r, Become(c, r),
         UNCHANGED <<clock, asked>>,
         r.now = 0 \/ (r.now = req[c].now /\ r.tag = req[c].tag), StampedBy(c),
         \A k \in Keys : \/ entry'[k] \in {NoEntry, entry[k]}
                         \/ Justified(entry'[k], asked, revalidatedAt, req),
         Sound(r)
  PROVE  MissInv'
<1>1. \A d \in Calls : req'[d] = IF d = c THEN r ELSE req[d]
  BY DEF TypeInv, TypeOK, Become
<1>2. /\ \A k \in Keys : entry'[k] \in Entry \cup {NoEntry}
      /\ \A d \in Calls : req'[d].pc \in HandStages => req'[d].held \in Entry
      /\ clock \in Nat
  BY DEF TypeInv, TypeOK, HandIsFull
<1>3. \A t \in Tags : revalidatedAt'[t] <= clock'
  BY <1>2 DEF MissInv, StampedBy
<1>4. \A d \in Calls : req'[d].now <= clock'
  BY <1>1, <1>2 DEF MissInv
<1>5. \A k \in Keys : entry'[k] # NoEntry => Justified(entry'[k], asked', revalidatedAt', req')
  BY <1>2, JustifiedKept DEF MissInv
<1>6. \A d \in Calls : req'[d].pc \in HandStages => Seen(req'[d].held, asked')
  BY <1>1 DEF MissInv, Sound
<1>7. \A d \in Calls : req'[d].pc \in HandStages \ {"stampEntry"} =>
          Justified(req'[d].held, asked', revalidatedAt', req')
  BY <1>1, <1>2, JustifiedKept DEF MissInv, Sound
<1>8. \A d \in Calls : req'[d].pc \in {"readEntry", "readTags"} => req'[d].stale = {}
  BY <1>1 DEF MissInv, Sound
<1>9. \A d \in Calls : req'[d].pc \in JudgeStages =>
          \A t \in req'[d].stale : req'[d].held.seen[t] < asked'[t]
  BY <1>1 DEF MissInv, Sound
<1>. QED
  BY <1>3, <1>4, <1>5, <1>6, <1>7, <1>8, <1>9 DEF MissInv

\* The records that hold no entry and compare no stamp.
LEMMA SoundAway ==
  ASSUME NEW r, r.pc \notin HandStages \cup {"readEntry"}
  PROVE  Sound(r)
BY DEF Sound, HandStages, JudgeStages

\* A stamp in hand is kept for the same tag, or dropped.
SameStamp(c, r) == r.now = 0 \/ (r.now = req[c].now /\ r.tag = req[c].tag)

\* The records that end a part of a call are sound.
LEMMA MissAway ==
  ASSUME TypeOK, NEW c \in Calls
  PROVE  /\ Sound(Idle) /\ SameStamp(c, Idle)
         /\ Sound(ToRender(c)) /\ SameStamp(c, ToRender(c))
         /\ Sound(Stored(c)) /\ SameStamp(c, Stored(c))
         /\ Sound(NextInput(c)) /\ SameStamp(c, NextInput(c))
         /\ At(c, "addTag") => Sound(AfterAddTag(c)) /\ SameStamp(c, AfterAddTag(c))
         /\ \A paths : Sound(Found(c, paths)) /\ SameStamp(c, Found(c, paths))
<1>1. req[c] \in Request
  BY DEF TypeOK
<1>2. /\ Idle.pc = "idle" /\ Idle.now = 0
      /\ ToRender(c).pc = "render" /\ ToRender(c).now = 0
      /\ Stored(c).pc = "readStored" /\ Stored(c).now = 0
  BY DEF Idle, ToRender, Stored
<1>3. \A s : [req[c] EXCEPT !.pc = s].pc = s /\ SameStamp(c, [req[c] EXCEPT !.pc = s])
  BY <1>1 DEF Request, SameStamp
<1>4. \A s, todo : /\ [req[c] EXCEPT !.pc = s, !.todo = todo].pc = s
                   /\ SameStamp(c, [req[c] EXCEPT !.pc = s, !.todo = todo])
  BY <1>1 DEF Request, SameStamp
<1>5. Sound(Idle) /\ SameStamp(c, Idle)
  BY <1>2, SoundAway DEF SameStamp, HandStages
<1>6. Sound(ToRender(c)) /\ SameStamp(c, ToRender(c))
  BY <1>2, SoundAway DEF SameStamp, HandStages
<1>7. Sound(Stored(c)) /\ SameStamp(c, Stored(c))
  BY <1>2, SoundAway DEF SameStamp, HandStages
<1>8. "addPath" \notin HandStages \cup {"readEntry"} /\ "setStamp" \notin HandStages \cup {"readEntry"}
  BY DEF HandStages
<1>9. Sound(NextInput(c)) /\ SameStamp(c, NextInput(c))
  BY <1>3, <1>5, <1>8, SoundAway DEF NextInput
<1>10. Sound(AfterAddTag(c)) /\ SameStamp(c, AfterAddTag(c))
  BY <1>3, <1>8, <1>9, SoundAway DEF AfterAddTag
<1>11. \A paths : Sound(Found(c, paths)) /\ SameStamp(c, Found(c, paths))
  BY <1>4, <1>5, <1>8, SoundAway DEF Found
<1>. QED
  BY <1>5, <1>6, <1>7, <1>9, <1>10, <1>11

\* A step of c that changes nothing else that MissInv looks at.
LEMMA MissQuiet ==
  ASSUME TypeInv, TypeInv', MissInv, NEW c \in Calls, NEW r, Become(c, r),
         UNCHANGED <<clock, asked, entry, revalidatedAt>>, Sound(r), SameStamp(c, r)
  PROVE  MissInv'
BY MissBecome DEF StampedBy, SameStamp

\* Choosing the tags to register holds no entry against a stamp.
LEMMA MissRegister ==
  ASSUME TypeInv, TypeInv', MissInv, NEW c \in Calls, NEW tags, Register(c, tags),
         UNCHANGED <<clock, asked, entry, revalidatedAt>>
  PROVE  MissInv'
<1>. DEFINE r == [req[c] EXCEPT !.pc = "addPath",
                                !.todo = {[tag |-> t, page |-> req[c].page] : t \in tags}]
<1>1. req[c] \in Request
  BY DEF TypeInv, TypeOK
<1>2. r.pc = "addPath" /\ SameStamp(c, r)
  BY <1>1 DEF Request, SameStamp
<1>3. Become(c, IF tags = {} THEN Idle ELSE r)
  BY DEF Register
<1>4. Sound(r)
  BY <1>2, SoundAway DEF HandStages
<1>5. Sound(Idle) /\ SameStamp(c, Idle)
  BY MissAway DEF TypeInv
<1>. HIDE DEF r
<1>. QED
  BY <1>2, <1>3, <1>4, <1>5, MissQuiet

\* The heart of NoNeedlessMiss: a tag that ReadStamp finds newer than the entry
\* in hand is one whose announcement the entry has missed.
LEMMA JudgeSound ==
  ASSUME TypeInv, MissInv, NEW c \in Calls, At(c, "readStamps"), NEW rest, NEW newer,
         \A t \in newer : \/ t \in req[c].stale
                          \/ t \in Tags /\ revalidatedAt[t] > req[c].held.lastModified
  PROVE  Sound(Judge(c, rest, newer)) /\ SameStamp(c, Judge(c, rest, newer))
<1>. DEFINE r == Judge(c, rest, newer)
<1>1. req[c] \in Request
  BY DEF TypeInv, TypeOK
<1>2. /\ r.pc \in {"readStamps", "serve", "clearStamps"}
      /\ r.held = req[c].held /\ r.stale = newer /\ r.now = req[c].now /\ r.tag = req[c].tag
  BY <1>1 DEF Judge, Request
<1>3. /\ Justified(req[c].held, asked, revalidatedAt, req)
      /\ \A t \in req[c].stale : req[c].held.seen[t] < asked[t]
  BY DEF MissInv, At, HandStages, JudgeStages
<1>4. \A t \in newer : req[c].held.seen[t] < asked[t]
  BY <1>3 DEF Justified
<1>. HIDE DEF r
<1>5. Sound(r)
  BY <1>2, <1>3, <1>4 DEF Sound, Justified
<1>. QED
  BY <1>2, <1>5 DEF SameStamp, r

\* What is left to clear says nothing new of the entry in hand.
LEMMA ClearedSound ==
  ASSUME TypeInv, MissInv, NEW c \in Calls, At(c, "clearStamps"), NEW t
  PROVE  Sound(Cleared(c, t)) /\ SameStamp(c, Cleared(c, t))
<1>. DEFINE r == [req[c] EXCEPT !.pending = @ \ {t}]
<1>1. req[c] \in Request
  BY DEF TypeInv, TypeOK
<1>2. /\ r.pc = "clearStamps" /\ r.held = req[c].held /\ r.stale = req[c].stale
      /\ r.now = req[c].now /\ r.tag = req[c].tag
  BY <1>1 DEF Request, At
<1>3. /\ Justified(req[c].held, asked, revalidatedAt, req)
      /\ \A u \in req[c].stale : req[c].held.seen[u] < asked[u]
  BY DEF MissInv, At, HandStages, JudgeStages
<1>4. Sound(ToRender(c)) /\ SameStamp(c, ToRender(c))
  BY MissAway DEF TypeInv
<1>5. Cleared(c, t) = IF req[c].pending = {t} THEN ToRender(c) ELSE r
  BY DEF Cleared
<1>. HIDE DEF r
<1>6. Sound(r) /\ SameStamp(c, r)
  BY <1>2, <1>3 DEF Sound, Justified, SameStamp
<1>. QED
  BY <1>4, <1>5, <1>6

\* The lookup of an entry and its judgement preserve MissInv.
LEMMA MissLookup ==
  ASSUME TypeInv, TypeInv', MissInv, NEW c \in Calls,
         \/ ReadEntry(c) \/ ReadTags(c) \/ ReadStamp(c) \/ ClearStamp(c) \/ Serve(c)
         \/ \E p \in Pages : StartRequest(c, p)
  PROVE  MissInv'
<1>1. req[c] \in Request /\ TypeOK
  BY DEF TypeInv, TypeOK
<1>2. CASE ReadEntry(c)
  <2>. DEFINE r == [req[c] EXCEPT !.pc = "readTags", !.held = entry[KeyOf(c)]]
  <2>1. UNCHANGED <<clock, asked, entry, revalidatedAt>>
    BY <1>2 DEF ReadEntry, redis
  <2>2. Sound(ToRender(c)) /\ SameStamp(c, ToRender(c))
    BY <1>1, MissAway
  <2>3. /\ r.pc = "readTags" /\ r.held = entry[KeyOf(c)] /\ r.stale = req[c].stale
        /\ r.now = req[c].now /\ r.tag = req[c].tag
    BY <1>1 DEF Request
  <2>4. req[c].stale = {}
    BY <1>2 DEF MissInv, ReadEntry, At
  <2>5. entry[KeyOf(c)] # NoEntry => Justified(entry[KeyOf(c)], asked, revalidatedAt, req)
    BY <1>1, KeyType DEF MissInv
  <2>6. Become(c, IF entry[KeyOf(c)] = NoEntry THEN ToRender(c) ELSE r)
    BY <1>2 DEF ReadEntry
  <2>. HIDE DEF r
  <2>7. entry[KeyOf(c)] # NoEntry => Sound(r) /\ SameStamp(c, r)
    BY <2>3, <2>4, <2>5 DEF Sound, SameStamp, Justified, JudgeStages
  <2>. QED
    BY <2>1, <2>2, <2>6, <2>7, MissQuiet
<1>3. CASE ReadTags(c)
  <2>1. PICK s \in {"serve", "readStamps"}, v \in SUBSET Tags :
         Become(c, [req[c] EXCEPT !.pc = s, !.pending = v])
    BY <1>1, <1>3 DEF ReadTags, TypeInv, TypeOK, Request
  <2>. DEFINE r == [req[c] EXCEPT !.pc = s, !.pending = v]
  <2>2. /\ r.pc \in {"serve", "readStamps"} /\ r.held = req[c].held /\ r.stale = req[c].stale
        /\ r.now = req[c].now /\ r.tag = req[c].tag
    BY <1>1, <2>1 DEF Request
  <2>3. req[c].stale = {} /\ Justified(req[c].held, asked, revalidatedAt, req)
    BY <1>3 DEF MissInv, ReadTags, At, HandStages
  <2>4. UNCHANGED <<clock, asked, entry, revalidatedAt>>
    BY <1>3 DEF ReadTags, redis
  <2>. HIDE DEF r
  <2>5. Sound(r) /\ SameStamp(c, r)
    BY <2>2, <2>3 DEF Sound, SameStamp, Justified
  <2>6. Become(c, r)
    BY <2>1 DEF r
  <2>. QED
    BY <2>4, <2>5, <2>6, MissQuiet
<1>4. CASE ReadStamp(c)
  <2>1. PICK t \in req[c].pending :
          Become(c, Judge(c, req[c].pending \ {t},
                          IF IsNewer(revalidatedAt[t], req[c].held.lastModified)
                              THEN req[c].stale \cup {t} ELSE req[c].stale))
    BY <1>4 DEF ReadStamp
  <2>. DEFINE newer == IF IsNewer(revalidatedAt[t], req[c].held.lastModified)
                           THEN req[c].stale \cup {t} ELSE req[c].stale
  <2>2. t \in Tags /\ At(c, "readStamps")
    BY <1>1, <1>4 DEF Request, ReadStamp
  <2>3. \A u \in newer : \/ u \in req[c].stale
                         \/ u \in Tags /\ revalidatedAt[u] > req[c].held.lastModified
    BY <2>2 DEF IsNewer
  <2>4. UNCHANGED <<clock, asked, entry, revalidatedAt>>
    BY <1>4 DEF ReadStamp, redis
  <2>. HIDE DEF newer
  <2>5. Become(c, Judge(c, req[c].pending \ {t}, newer))
    BY <2>1 DEF newer
  <2>. QED
    BY <2>2, <2>3, <2>4, <2>5, JudgeSound, MissQuiet
<1>5. CASE ClearStamp(c)
  <2>1. PICK t \in req[c].pending : /\ revalidatedAt' = [revalidatedAt EXCEPT ![t] = 0]
                                    /\ Become(c, Cleared(c, t))
    BY <1>5 DEF ClearStamp
  <2>2. StampedBy(c)
    BY <1>1, <2>1 DEF StampedBy, TypeOK
  <2>3. Sound(Cleared(c, t)) /\ SameStamp(c, Cleared(c, t))
    BY <1>5, ClearedSound DEF ClearStamp
  <2>4. UNCHANGED <<clock, asked, entry>>
    BY <1>5 DEF ClearStamp
  <2>. QED
    BY <2>1, <2>2, <2>3, <2>4, MissBecome DEF SameStamp
<1>6. CASE Serve(c)
  BY <1>1, <1>6, MissAway, MissQuiet DEF Serve, redis
<1>7. ASSUME NEW p \in Pages, StartRequest(c, p)
      PROVE  MissInv'
  <2>. DEFINE r == [Idle EXCEPT !.pc = "readEntry", !.page = p]
  <2>1. r.pc = "readEntry" /\ r.stale = {} /\ r.now = 0
    BY DEF Idle
  <2>2. Become(c, r) /\ UNCHANGED <<clock, asked, entry, revalidatedAt>>
    BY <1>7 DEF StartRequest, redis
  <2>. HIDE DEF r
  <2>3. Sound(r) /\ SameStamp(c, r)
    BY <2>1 DEF Sound, SameStamp, HandStages, JudgeStages
  <2>. QED
    BY <2>2, <2>3, MissQuiet
<1>. QED
  BY <1>2, <1>3, <1>4, <1>5, <1>6, <1>7

\* A new entry is stamped with a clock that no stamp is ahead of.
LEMMA MissStore ==
  ASSUME TypeInv, TypeInv', MissInv, NEW c \in Calls,
         Render(c) \/ StampEntry(c) \/ WriteEntry(c) \/ ReadStored(c)
  PROVE  MissInv'
<1>1. req[c] \in Request /\ TypeOK
  BY DEF TypeInv, TypeOK
<1>2. CASE Render(c)
  <2>. DEFINE r == [req[c] EXCEPT !.pc = "stampEntry",
                                  !.held = [seen |-> asked, lastModified |-> 0]]
  <2>1. /\ r.pc = "stampEntry" /\ r.held.seen = asked
        /\ r.now = req[c].now /\ r.tag = req[c].tag
    BY <1>1 DEF Request
  <2>2. Become(c, r) /\ UNCHANGED <<clock, asked, entry, revalidatedAt>>
    BY <1>2 DEF Render, redis
  <2>. HIDE DEF r
  <2>3. \A t \in Tags : asked[t] <= asked[t]
    <3>1. \A t \in Tags : asked[t] \in Nat
      BY <1>1, BoundsAssumption DEF TypeOK
    <3>. QED
      BY <3>1
  <2>4. Sound(r) /\ SameStamp(c, r)
    BY <2>1, <2>3 DEF Sound, SameStamp, Seen, JudgeStages
  <2>. QED
    BY <2>2, <2>4, MissQuiet
<1>3. CASE StampEntry(c)
  <2>. DEFINE r == [req[c] EXCEPT !.pc = "writeEntry", !.held.lastModified = clock]
  <2>1. req[c].held \in Entry /\ Seen(req[c].held, asked)
    BY <1>3 DEF TypeInv, HandIsFull, MissInv, StampEntry, At, HandStages
  <2>2. r.held = [req[c].held EXCEPT !.lastModified = clock]
    BY <1>1 DEF Request
  <2>3. r.pc = "writeEntry" /\ r.now = req[c].now /\ r.tag = req[c].tag
    BY <1>1 DEF Request
  <2>4. r.held.seen = req[c].held.seen /\ r.held.lastModified = clock
    BY <2>1, <2>2 DEF Entry
  <2>5. Become(c, r) /\ UNCHANGED <<clock, asked, entry, revalidatedAt>>
    BY <1>3 DEF StampEntry, redis
  <2>. HIDE DEF r
  <2>6. Seen(r.held, asked)
    BY <2>1, <2>4 DEF Seen
  <2>7. /\ clock \in Nat
        /\ \A t \in Tags : revalidatedAt[t] \in Nat
        /\ \A d \in Calls : req[d].now \in Nat
    BY <1>1 DEF TypeOK, Request
  <2>8. Justified(r.held, asked, revalidatedAt, req)
    BY <2>4, <2>6, <2>7 DEF Justified, MissInv
  <2>9. Sound(r) /\ SameStamp(c, r)
    BY <2>3, <2>6, <2>8 DEF Sound, SameStamp, JudgeStages
  <2>. QED
    BY <2>5, <2>9, MissQuiet
<1>4. CASE WriteEntry(c)
  <2>1. Justified(req[c].held, asked, revalidatedAt, req)
    BY <1>4 DEF MissInv, WriteEntry, At, HandStages
  <2>2. \A k \in Keys : entry'[k] = entry[k] \/ entry'[k] = req[c].held
    BY <1>1, <1>4 DEF WriteEntry, TypeOK
  <2>3. Become(c, Stored(c)) /\ UNCHANGED <<clock, asked, revalidatedAt>>
    BY <1>4 DEF WriteEntry
  <2>4. StampedBy(c)
    BY <2>3 DEF StampedBy
  <2>5. Sound(Stored(c)) /\ SameStamp(c, Stored(c))
    BY <1>1, MissAway
  <2>6. \A k \in Keys : \/ entry'[k] \in {NoEntry, entry[k]}
                        \/ Justified(entry'[k], asked, revalidatedAt, req)
    BY <2>1, <2>2
  <2>. QED
    BY <2>3, <2>4, <2>5, <2>6, MissBecome DEF SameStamp
<1>5. CASE ReadStored(c)
  BY <1>5, MissRegister DEF ReadStored, redis
<1>. QED
  BY <1>2, <1>3, <1>4, <1>5

\* The writeTags pipeline and getByTag preserve MissInv.
LEMMA MissWriteTags ==
  ASSUME TypeInv, TypeInv', MissInv, NEW c \in Calls,
         AddPath(c) \/ AddTag(c) \/ SetStamp(c) \/ ReadPaths(c)
  PROVE  MissInv'
<1>1. req[c] \in Request /\ TypeOK
  BY DEF TypeInv, TypeOK
<1>2. CASE AddPath(c)
  <2>1. PICK i \in req[c].todo :
          Become(c, [req[c] EXCEPT !.pc = "addTag", !.item = i, !.todo = @ \ {i}])
    BY <1>2 DEF AddPath
  <2>. DEFINE r == [req[c] EXCEPT !.pc = "addTag", !.item = i, !.todo = @ \ {i}]
  <2>2. r.pc = "addTag" /\ SameStamp(c, r)
    BY <1>1 DEF Request, SameStamp
  <2>3. Become(c, r) /\ UNCHANGED <<clock, asked, entry, revalidatedAt>>
    BY <1>2, <2>1 DEF AddPath
  <2>. HIDE DEF r
  <2>4. Sound(r)
    BY <2>2, SoundAway DEF HandStages
  <2>. QED
    BY <2>2, <2>3, <2>4, MissQuiet
<1>3. CASE AddTag(c)
  BY <1>1, <1>3, MissAway, MissQuiet DEF AddTag
<1>4. CASE SetStamp(c)
  <2>1. revalidatedAt' = [revalidatedAt EXCEPT ![req[c].tag] = req[c].now]
    BY <1>4 DEF SetStamp
  <2>2. StampedBy(c)
    BY <1>1, <2>1 DEF StampedBy, TypeOK
  <2>3. Become(c, NextInput(c)) /\ UNCHANGED <<clock, asked, entry>>
    BY <1>4 DEF SetStamp
  <2>4. Sound(NextInput(c)) /\ SameStamp(c, NextInput(c))
    BY <1>1, MissAway
  <2>. QED
    BY <2>2, <2>3, <2>4, MissBecome DEF SameStamp
<1>5. CASE ReadPaths(c)
  BY <1>1, <1>5, MissAway, MissQuiet DEF ReadPaths, redis
<1>. QED
  BY <1>2, <1>3, <1>4, <1>5

\* Failed commands, which set no stamp, and death preserve MissInv.
LEMMA MissFail ==
  ASSUME TypeInv, TypeInv', MissInv, NEW c \in Calls, Fail(c) \/ Die(c)
  PROVE  MissInv'
<1>1. req[c] \in Request /\ TypeOK
  BY DEF TypeInv, TypeOK
<1>2. UNCHANGED <<clock, asked, entry, revalidatedAt>>
  BY DEF Fail, Die, redis
<1>3. CASE req[c].pc \in {"readEntry", "readTags", "writeEntry"} /\ FailRead(c)
  <2>. DEFINE r == [req[c] EXCEPT !.pc = "serve"]
  <2>1. r.pc = "serve" /\ r.held = req[c].held /\ SameStamp(c, r)
    BY <1>1 DEF Request, SameStamp
  <2>2. At(c, "readTags") => Justified(req[c].held, asked, revalidatedAt, req)
    BY DEF MissInv, At, HandStages
  <2>3. \/ At(c, "readTags") /\ Become(c, r)
        \/ Become(c, ToRender(c))
        \/ Become(c, Stored(c))
    BY <1>3 DEF FailRead, At
  <2>. HIDE DEF r
  <2>4. At(c, "readTags") => Sound(r)
    BY <2>1, <2>2 DEF Sound, Justified, JudgeStages
  <2>. QED
    BY <1>1, <1>2, <2>1, <2>3, <2>4, MissAway, MissQuiet
<1>4. CASE At(c, "readStamps") /\ FailPipelineRead(c)
  <2>1. PICK t : Become(c, Judge(c, req[c].pending \ {t}, req[c].stale))
    BY <1>4 DEF FailPipelineRead
  <2>2. /\ Sound(Judge(c, req[c].pending \ {t}, req[c].stale))
        /\ SameStamp(c, Judge(c, req[c].pending \ {t}, req[c].stale))
    BY <1>4, JudgeSound
  <2>. QED
    BY <1>2, <2>1, <2>2, MissQuiet
<1>5. CASE At(c, "clearStamps") /\ FailPipelineRead(c)
  <2>1. PICK t : Become(c, Cleared(c, t))
    BY <1>5 DEF FailPipelineRead, At
  <2>. QED
    BY <1>2, <1>5, <2>1, ClearedSound, MissQuiet
<1>6. CASE At(c, "readStored") /\ Register(c, TagsOf[req[c].page])
  BY <1>2, <1>6, MissRegister
<1>7. CASE At(c, "addPath") /\ FailAddPath(c)
  <2>1. PICK i \in req[c].todo :
          Become(c, [req[c] EXCEPT !.pc = "addTag", !.item = i, !.todo = @ \ {i}])
    BY <1>7 DEF FailAddPath
  <2>. DEFINE r == [req[c] EXCEPT !.pc = "addTag", !.item = i, !.todo = @ \ {i}]
  <2>2. r.pc = "addTag" /\ SameStamp(c, r)
    BY <1>1 DEF Request, SameStamp
  <2>3. Become(c, r)
    BY <2>1
  <2>. HIDE DEF r
  <2>4. Sound(r)
    BY <2>2, SoundAway DEF HandStages
  <2>. QED
    BY <1>2, <2>2, <2>3, <2>4, MissQuiet
<1>8. CASE At(c, "addTag") /\ FailAddTag(c)
  BY <1>1, <1>2, <1>8, MissAway, MissQuiet DEF FailAddTag
<1>9. CASE req[c].pc \in {"readPaths", "setStamp"} /\ FailRevalidation(c)
  BY <1>1, <1>2, <1>9, MissAway, MissQuiet DEF FailRevalidation
<1>10. CASE Die(c)
  BY <1>1, <1>2, <1>10, MissAway, MissQuiet DEF Die
<1>. QED
  BY <1>3, <1>4, <1>5, <1>6, <1>7, <1>8, <1>9, <1>10 DEF Fail, At

\* A new revalidation announces more than any entry has seen.
LEMMA MissAnnounce ==
  ASSUME TypeInv, TypeInv', MissInv, NEW c \in Calls, NEW t \in Tags, StartRevalidation(c, t)
  PROVE  MissInv'
<1>. DEFINE r == [Idle EXCEPT !.pc = "readPaths", !.tag = t, !.now = clock,
                              !.round = asked[t] + 1]
<1>1. /\ Become(c, r) /\ UNCHANGED <<clock, entry, revalidatedAt>>
      /\ asked' = [asked EXCEPT ![t] = @ + 1]
  BY DEF StartRevalidation, redis
<1>2. r.pc = "readPaths" /\ r.tag = t /\ r.now = clock
  BY DEF Idle
<1>. HIDE DEF r
<1>3. TypeOK /\ \A d \in Calls : req'[d] = IF d = c THEN r ELSE req[d]
  BY <1>1 DEF TypeInv, TypeOK, Become
<1>4. \A u \in Tags : asked[u] \in Nat /\ asked'[u] = IF u = t THEN asked[u] + 1 ELSE asked[u]
  BY <1>1, <1>3, BoundsAssumption DEF TypeOK
<1>5. ASSUME NEW e \in Entry, Seen(e, asked)
      PROVE  Seen(e, asked') /\ e.seen[t] < asked'[t]
  <2>1. \A u \in Tags : e.seen[u] \in Nat /\ e.seen[u] <= asked[u]
    BY <1>5 DEF Seen, Entry
  <2>. QED
    BY <1>4, <2>1 DEF Seen
<1>6. ASSUME NEW e \in Entry, Justified(e, asked, revalidatedAt, req)
      PROVE  Justified(e, asked', revalidatedAt', req')
  <2>1. \A u \in Tags : e.seen[u] \in Nat /\ (e.seen[u] < asked[u] => e.seen[u] < asked'[u])
    BY <1>4 DEF Entry
  <2>2. \A d \in Calls : req[d].tag \in Tags
    BY <1>3 DEF TypeOK, Request
  <2>3. Seen(e, asked') /\ e.seen[t] < asked'[t]
    BY <1>5, <1>6 DEF Justified
  <2>. QED
    BY <1>1, <1>2, <1>3, <1>6, <2>1, <2>2, <2>3 DEF Justified
<1>7. /\ \A k \in Keys : entry[k] # NoEntry => entry[k] \in Entry
      /\ \A d \in Calls : req[d].pc \in HandStages => req[d].held \in Entry
      /\ clock \in Nat
  BY DEF TypeInv, TypeOK, HandIsFull
<1>8. "readPaths" \notin HandStages /\ JudgeStages \subseteq HandStages
  BY DEF HandStages, JudgeStages
<1>9. /\ \A u \in Tags : revalidatedAt'[u] <= clock'
      /\ \A d \in Calls : req'[d].now <= clock'
      /\ \A k \in Keys : entry'[k] # NoEntry => Justified(entry'[k], asked', revalidatedAt', req')
  <2>1. \A u \in Tags : revalidatedAt'[u] <= clock'
    BY <1>1 DEF MissInv
  <2>2. \A d \in Calls : req'[d].now <= clock'
    BY <1>1, <1>2, <1>3, <1>7 DEF MissInv
  <2>3. \A k \in Keys : entry[k] # NoEntry => Justified(entry[k], asked', revalidatedAt', req')
    BY <1>6, <1>7 DEF MissInv
  <2>. QED
    BY <1>1, <2>1, <2>2, <2>3
<1>10. /\ \A d \in Calls : req'[d].pc \in HandStages => Seen(req'[d].held, asked')
       /\ \A d \in Calls : req'[d].pc \in HandStages \ {"stampEntry"} =>
              Justified(req'[d].held, asked', revalidatedAt', req')
       /\ \A d \in Calls : req'[d].pc \in {"readEntry", "readTags"} => req'[d].stale = {}
  BY <1>2, <1>3, <1>5, <1>6, <1>7, <1>8 DEF MissInv
<1>11. ASSUME NEW d \in Calls, req'[d].pc \in JudgeStages, NEW u \in req'[d].stale
       PROVE  req'[d].held.seen[u] < asked'[u]
  <2>1. d # c /\ req'[d] = req[d]
    BY <1>2, <1>3, <1>8, <1>11
  <2>2. u \in Tags /\ req[d].held.seen[u] \in Nat /\ req[d].held.seen[u] < asked[u]
    BY <1>3, <1>7, <1>8, <1>11, <2>1 DEF MissInv, TypeOK, Request, Entry
  <2>. QED
    BY <1>4, <2>1, <2>2
<1>. QED
  BY <1>9, <1>10, <1>11 DEF MissInv

\* MissInv holds in an empty Redis.
LEMMA MissInit == Init => MissInv
<1>. SUFFICES ASSUME Init PROVE MissInv
  OBVIOUS
<1>1. /\ \A c \in Calls : req[c].pc = "idle" /\ req[c].now = 0
      /\ \A t \in Tags : revalidatedAt[t] = 0
      /\ \A k \in Keys : entry[k] = NoEntry
      /\ clock = 1
  BY DEF Init, Idle
<1>. QED
  BY <1>1 DEF MissInv, HandStages, JudgeStages

\* Every step preserves MissInv.
LEMMA MissNext == TypeInv /\ MissInv /\ [Next]_vars => MissInv'
<1>. SUFFICES ASSUME TypeInv, MissInv, [Next]_vars PROVE MissInv'
  OBVIOUS
<1>. TypeInv'
  BY TypeInvNext
<1>1. ASSUME NEW c \in Calls, Step(c) \/ \E p \in Pages : StartRequest(c, p)
      PROVE  MissInv'
  BY <1>1, MissLookup, MissStore, MissWriteTags DEF Step
<1>2. ASSUME NEW c \in Calls, Fail(c) \/ Die(c)
      PROVE  MissInv'
  BY <1>2, MissFail
<1>3. ASSUME NEW c \in Calls, NEW t \in Tags, StartRevalidation(c, t)
      PROVE  MissInv'
  BY <1>3, MissAnnounce
<1>4. CASE Tick
  <2>1. clock' = clock + 1 /\ UNCHANGED <<asked, entry, revalidatedAt, req>>
    BY <1>4 DEF Tick, redis
  <2>2. /\ clock \in Nat
        /\ \A t \in Tags : revalidatedAt[t] \in Nat
        /\ \A c \in Calls : req[c].now \in Nat
    BY DEF TypeInv, TypeOK, Request
  <2>. QED
    BY <2>1, <2>2 DEF MissInv
<1>5. ASSUME NEW k \in Keys, Expire(k)
      PROVE  MissInv'
  <2>1. UNCHANGED <<clock, asked, revalidatedAt, req>>
    BY <1>5 DEF Expire
  <2>2. \A j \in Keys : entry'[j] # NoEntry => entry'[j] = entry[j]
    BY <1>5 DEF Expire, TypeInv, TypeOK
  <2>. QED
    BY <2>1, <2>2 DEF MissInv
<1>6. CASE UNCHANGED vars
  BY <1>6 DEF vars, redis, MissInv
<1>. QED
  BY <1>1, <1>2, <1>3, <1>4, <1>5, <1>6 DEF Next

\* getLastModified (redis-tag-cache.ts) never answers -1 on account of a tag
\* whose last revalidation the entry's content already reflects, whichever
\* commands fail and however late the stamps of slow revalidations arrive.
THEOREM NoMissIsNeedless == Spec => []NoNeedlessMiss
<1>1. MissInv => NoNeedlessMiss
  BY DEF MissInv, NoNeedlessMiss, JudgeStages, At
<1>2. MissInv /\ TypeInv /\ [Next]_vars => MissInv'
  BY MissNext
<1>. QED
  BY <1>1, <1>2, MissInit, TypeInvariance, PTL DEF Spec
=============================================================================
