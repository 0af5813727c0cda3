------------------------ MODULE IsrCacheStale_proofs ------------------------
(***************************************************************************)
(* Proofs of what IsrCache says about stale and unregistered entries, for  *)
(* every set of calls, builds, pages and tags and every bound.             *)
(***************************************************************************)
EXTENDS IsrCacheSafety_proofs

----------------------------------------------------------------------------
(* The records of a call that is not in writeTags. *)

Writing == {"addPath", "addTag", "setStamp"}
InTagCache == Writing \cup {"readPaths"}

\* What Become does to the calls.
LEMMA Becomes ==
  ASSUME TypeOK, NEW c \in Calls, NEW r, Become(c, r)
  PROVE  /\ req'[c] = r
         /\ \A d \in Calls : d # c => req'[d] = req[d]
BY DEF TypeOK, Become

\* The stages and stamps of the records that a step may make of a call's.
LEMMA Records ==
  ASSUME TypeOK, NEW c \in Calls
  PROVE  /\ Idle.pc = "idle"
         /\ ToRender(c).pc = "render"
         /\ Stored(c).pc = "readStored" /\ Stored(c).now = 0 /\ Stored(c).page = req[c].page
         /\ \A rest, newer : Judge(c, rest, newer).pc \notin InTagCache
         /\ \A t : Cleared(c, t).pc \in {"render", req[c].pc}
<1>1. req[c] \in Request
  BY DEF TypeOK
<1>. QED
  BY <1>1 DEF Idle, ToRender, Stored, Judge, Cleared, InTagCache, Writing, Request

\* The lookup of an entry, its rendering and its storing send no call to the tag
\* cache's writers; nor do their failures and deaths.
LEMMA LookupMoves ==
  ASSUME TypeInv, NEW c \in Calls,
         \/ ReadEntry(c) \/ ReadTags(c) \/ ReadStamp(c) \/ ClearStamp(c) \/ Serve(c)
         \/ Render(c) \/ StampEntry(c) \/ WriteEntry(c) \/ Die(c)
         \/ Fail(c) /\ req[c].pc \in {"readEntry", "readTags", "writeEntry",
                                      "readStamps", "clearStamps"}
         \/ \E p \in Pages : StartRequest(c, p)
  PROVE  /\ Become(c, req'[c])
         /\ req'[c].pc \notin InTagCache
         /\ req'[c].pc = "readStored" => req'[c].now = 0 /\ req'[c].page = req[c].page
<1>. DEFINE Moves(r) == /\ Become(c, r) /\ r.pc \notin InTagCache
                        /\ r.pc = "readStored" => r.now = 0 /\ r.page = req[c].page
<1>1. TypeOK /\ req[c] \in Request
  BY DEF TypeInv, TypeOK
<1>2. SUFFICES \E r : Moves(r)
  BY <1>1, Becomes
<1>3. ASSUME NEW r, Become(c, r), r.pc \notin InTagCache \cup {"readStored"}
      PROVE  \E q : Moves(q)
  BY <1>3
<1>. HIDE DEF Moves
<1>4. CASE Serve(c) \/ Die(c)
  BY <1>1, <1>3, <1>4, Records DEF Serve, Die, InTagCache, Writing
<1>5. CASE ReadEntry(c)
  <2>1. \A e : [req[c] EXCEPT !.pc = "readTags", !.held = e].pc = "readTags"
    BY <1>1 DEF Request
  <2>. QED
    BY <1>1, <1>3, <1>5, <2>1, Records DEF ReadEntry, InTagCache, Writing
<1>6. CASE ReadTags(c)
  <2>1. \A s, v : [req[c] EXCEPT !.pc = s, !.pending = v].pc = s
    BY <1>1 DEF Request
  <2>. DEFINE tags == pathTags[req[c].page]
              s == IF tags = {} THEN "serve" ELSE "readStamps"
              r == [req[c] EXCEPT !.pc = s, !.pending = tags]
  <2>2. Become(c, r)
    BY <1>6 DEF ReadTags
  <2>3. r.pc = s /\ s \in {"serve", "readStamps"}
    BY <2>1
  <2>. HIDE DEF r
  <2>. QED
    BY <1>3, <2>2, <2>3 DEF InTagCache, Writing
<1>7. CASE ReadStamp(c)
  <2>1. PICK rest, newer : Become(c, Judge(c, rest, newer))
    BY <1>7 DEF ReadStamp
  <2>2. Judge(c, rest, newer).pc \notin InTagCache \cup {"readStored"}
    BY <1>1 DEF Judge, InTagCache, Writing, Request
  <2>. QED
    BY <1>3, <2>1, <2>2
<1>8. CASE ClearStamp(c)
  <2>1. PICK t : Become(c, Cleared(c, t))
    BY <1>8 DEF ClearStamp
  <2>. QED
    BY <1>1, <1>3, <1>8, <2>1, Records DEF ClearStamp, At, InTagCache, Writing
<1>9. CASE Render(c)
  <2>1. \A e : [req[c] EXCEPT !.pc = "stampEntry", !.held = e].pc = "stampEntry"
    BY <1>1 DEF Request
  <2>. QED
    BY <1>3, <1>9, <2>1 DEF Render, InTagCache, Writing
<1>10. CASE StampEntry(c)
  <2>1. [req[c] EXCEPT !.pc = "writeEntry", !.held.lastModified = clock].pc = "writeEntry"
    BY <1>1 DEF Request
  <2>. QED
    BY <1>3, <1>10, <2>1 DEF StampEntry, InTagCache, Writing
<1>11. ASSUME Become(c, Stored(c)) PROVE \E r : Moves(r)
  BY <1>1, <1>11, Records DEF Moves, InTagCache, Writing
<1>12. CASE WriteEntry(c)
  BY <1>11, <1>12 DEF WriteEntry
<1>13. ASSUME FailRead(c), req[c].pc \in {"readEntry", "readTags", "writeEntry"}
       PROVE  \E r : Moves(r)
  <2>1. [req[c] EXCEPT !.pc = "serve"].pc = "serve"
    BY <1>1 DEF Request
  <2>2. Become(c, ToRender(c)) \/ Become(c, [req[c] EXCEPT !.pc = "serve"]) \/ Become(c, Stored(c))
    BY <1>13 DEF FailRead, At
  <2>. QED
    BY <1>1, <1>3, <1>11, <2>1, <2>2, Records DEF InTagCache, Writing
<1>14. ASSUME FailPipelineRead(c), req[c].pc \in {"readStamps", "clearStamps"}
       PROVE  \E r : Moves(r)
  <2>1. PICK t : Become(c, IF At(c, "readStamps")
                               THEN Judge(c, req[c].pending \ {t}, req[c].stale)
                               ELSE Cleared(c, t))
    BY <1>14 DEF FailPipelineRead
  <2>2. CASE At(c, "readStamps")
    <3>1. Judge(c, req[c].pending \ {t}, req[c].stale).pc \notin InTagCache \cup {"readStored"}
      BY <1>1 DEF Judge, InTagCache, Writing, Request
    <3>. QED
      BY <1>3, <2>1, <2>2, <3>1
  <2>3. CASE ~At(c, "readStamps")
    BY <1>1, <1>3, <1>14, <2>1, <2>3, Records DEF At, InTagCache, Writing
  <2>. QED
    BY <2>2, <2>3
<1>15. ASSUME NEW p \in Pages, StartRequest(c, p)
       PROVE  \E r : Moves(r)
  <2>1. [Idle EXCEPT !.pc = "readEntry", !.page = p].pc = "readEntry"
    BY DEF Idle
  <2>. QED
    BY <1>3, <1>15, <2>1 DEF StartRequest, InTagCache, Writing
<1>16. CASE Fail(c) /\ req[c].pc \in {"readEntry", "readTags", "writeEntry",
                                      "readStamps", "clearStamps"}
  BY <1>13, <1>14, <1>16 DEF Fail, At
<1>. QED
  BY <1>4, <1>5, <1>6, <1>7, <1>8, <1>9, <1>10, <1>12, <1>15, <1>16

\* r is c's record, moved to a stage of writeTags with these inputs to come.
Moved(r, c, stage, inputs) ==
    /\ r.pc = stage /\ r.todo = inputs
    /\ r.page = req[c].page /\ r.tag = req[c].tag
    /\ r.now = req[c].now /\ r.round = req[c].round

\* The records that a step of writeTags may make of a call's.
LEMMA WriterRecords ==
  ASSUME TypeOK, NEW c \in Calls
  PROVE  /\ req[c].todo = {} => NextInput(c) = Idle
         /\ req[c].todo # {} => Moved(NextInput(c), c, "addPath", req[c].todo)
         /\ req[c].now # 0 => Moved(AfterAddTag(c), c, "setStamp", req[c].todo)
         /\ req[c].now = 0 => AfterAddTag(c) = NextInput(c)
         /\ \A paths : paths # {} => Moved(Found(c, paths), c, "addPath",
                                           {[tag |-> req[c].tag, page |-> p] : p \in paths})
         /\ \A tags : tags # {} =>
                Moved([req[c] EXCEPT !.pc = "addPath",
                                     !.todo = {[tag |-> t, page |-> req[c].page] : t \in tags}],
                      c, "addPath", {[tag |-> t, page |-> req[c].page] : t \in tags})
<1>1. req[c] \in Request
  BY DEF TypeOK
<1>2. \A stage, inputs : Moved([req[c] EXCEPT !.pc = stage, !.todo = inputs], c, stage, inputs)
  BY <1>1 DEF Moved, Request
<1>3. \A stage : Moved([req[c] EXCEPT !.pc = stage], c, stage, req[c].todo)
  BY <1>1 DEF Moved, Request
<1>. QED
  BY <1>2, <1>3 DEF NextInput, AfterAddTag, Found

\* The record of a call that has taken its next input.
LEMMA TakenRecord ==
  ASSUME TypeOK, NEW c \in Calls, NEW i \in req[c].todo
  PROVE  LET r == [req[c] EXCEPT !.pc = "addTag", !.item = i, !.todo = @ \ {i}]
         IN  Moved(r, c, "addTag", req[c].todo \ {i}) /\ r.item = i /\ r \in Request
<1>1. req[c] \in Request /\ i \in Inputs
  BY DEF TypeOK, Request
<1>2. /\ [req[c] EXCEPT !.pc = "addTag", !.item = i, !.todo = @ \ {i}] \in Request
      /\ [req[c] EXCEPT !.pc = "addTag", !.item = i, !.todo = @ \ {i}].item = i
  BY <1>1 DEF Request, Stages
<1>. QED
  BY <1>1, <1>2 DEF Moved, Request

----------------------------------------------------------------------------
(* StaleHasCause.  A revalidation in writeTags must still get to every     *)
(* entry that misses it for no known cause: the entry's page is registered *)
(* under the tag in the index that readers ask, or is among the inputs to  *)
(* come.  When the pipeline ends, only the first remains, and the stamp    *)
(* that was just SET covers the entry.                                     *)

\* Entry k misses revalidation n of t, and nothing is known to have caused it.
Missing(entries, causes, k, t, n) ==
    entries[k] # NoEntry /\ entries[k].seen[t] < n /\ causes[k][t] = "none"

\* What a call in the tag cache is there for.
Asks(r, counts) ==
    /\ r.pc = "readStored" => r.now = 0
    /\ r.pc \in {"readPaths", "setStamp"} => r.now # 0
    /\ (r.pc \in InTagCache /\ r.now # 0) => r.round <= counts[r.tag]
    /\ (r.pc \in InTagCache /\ r.now # 0) => \A i \in r.todo : i.tag = r.tag
    /\ (r.pc = "addTag" /\ r.now # 0) => r.item.tag = r.tag

Reaches(entries, causes, registered, r) ==
    (r.pc \in Writing /\ r.now # 0) =>
        \A k \in Keys :
            (r.tag \in TagsOf[k[2]] /\ Missing(entries, causes, k, r.tag, r.round)) =>
                \/ r.tag \in registered[k[2]]
                \/ \E i \in r.todo : i.page = k[2]
                \/ r.pc = "addTag" /\ r.item.page = k[2]

StaleInv ==
    /\ \A c \in Calls : Asks(req[c], asked) /\ Reaches(entry, cause, pathTags, req[c])
    /\ \A t \in Tags : acked[t] <= asked[t]
    /\ StaleHasCause

\* At first nothing is cached and nobody calls.
LEMMA StaleInit == Init => StaleInv
<1>. SUFFICES ASSUME Init PROVE StaleInv
  OBVIOUS
<1>1. \A c \in Calls : req[c].pc = "idle"
  BY DEF Init, Idle
<1>2. \A c \in Calls : Asks(req[c], asked) /\ Reaches(entry, cause, pathTags, req[c])
  BY <1>1 DEF Asks, Reaches, InTagCache, Writing
<1>3. \A t \in Tags : acked[t] <= asked[t]
  BY DEF Init
<1>4. StaleHasCause
  <2>1. \A k \in Keys : entry[k] = NoEntry
    BY DEF Init
  <2>. QED
    BY <2>1 DEF StaleHasCause
<1>. QED
  BY <1>2, <1>3, <1>4 DEF StaleInv

\* A page has a place in every key, and its tags are tags.
LEMMA KeyParts ==
  ASSUME NEW k \in Keys
  PROVE  k[2] \in Pages /\ TagsOf[k[2]] \in SUBSET Tags
BY TagsOfAssumption DEF Keys

\* What StaleInv asks of a step of one call: no revalidation asked for so far
\* is missed anew, no registration is lost, the call's next record asks and
\* reaches, and what misses an acknowledged revalidation is covered.
LEMMA StaleStep ==
  ASSUME TypeInv, TypeInv', StaleInv, NEW c \in Calls, NEW r, Become(c, r),
         \A t \in Tags : asked[t] <= asked'[t] /\ acked'[t] <= asked'[t],
         \A k \in Keys : \A t \in TagsOf[k[2]] : \A n \in Nat :
             n <= asked[t] /\ Missing(entry', cause', k, t, n) => Missing(entry, cause, k, t, n),
         \A p \in Pages : pathTags[p] \subseteq pathTags'[p],
         Asks(r, asked'), Reaches(entry', cause', pathTags', r),
         \A k \in Keys : \A t \in TagsOf[k[2]] :
             Missing(entry', cause', k, t, acked'[t]) =>
                 t \in pathTags'[k[2]] /\ revalidatedAt'[t] > entry'[k].lastModified
  PROVE  StaleInv'
<1>1. /\ req'[c] = r
      /\ \A d \in Calls : d # c => req'[d] = req[d]
  BY Becomes DEF TypeInv
<1>2. \A d \in Calls : req[d] \in Request
  BY DEF TypeInv, TypeOK
<1>3. ASSUME NEW d \in Calls
      PROVE  Asks(req'[d], asked') /\ Reaches(entry', cause', pathTags', req'[d])
  <2>1. CASE d = c
    BY <1>1, <2>1
  <2>2. CASE d # c
    <3>1. req'[d] = req[d] /\ req[d].tag \in Tags /\ req[d].round \in Nat
      BY <1>1, <1>2, <2>2 DEF Request
    <3>2. Asks(req[d], asked) /\ Reaches(entry, cause, pathTags, req[d])
      BY DEF StaleInv
    <3>3. asked[req[d].tag] \in Nat /\ asked'[req[d].tag] \in Nat
          /\ asked[req[d].tag] <= asked'[req[d].tag]
      BY <3>1, BoundsAssumption DEF TypeInv, TypeOK
    <3>4. Asks(req[d], asked')
      BY <3>1, <3>2, <3>3 DEF Asks
    <3>5. Reaches(entry', cause', pathTags', req[d])
      <4> SUFFICES ASSUME req[d].pc \in Writing, req[d].now # 0,
                          NEW k \in Keys, req[d].tag \in TagsOf[k[2]],
                          Missing(entry', cause', k, req[d].tag, req[d].round)
                   PROVE  \/ req[d].tag \in pathTags'[k[2]]
                          \/ \E i \in req[d].todo : i.page = k[2]
                          \/ req[d].pc = "addTag" /\ req[d].item.page = k[2]
        BY DEF Reaches
      <4>1. req[d].round <= asked[req[d].tag]
        BY <3>2 DEF Asks, InTagCache
      <4>2. Missing(entry, cause, k, req[d].tag, req[d].round)
        BY <3>1, <4>1
      <4>. QED
        BY <3>2, <4>2, KeyParts DEF Reaches
    <3>. QED
      BY <3>1, <3>4, <3>5
  <2>. QED
    BY <2>1, <2>2
<1>4. StaleHasCause'
  BY DEF StaleHasCause, Covered, Missing
<1>. QED
  BY <1>3, <1>4 DEF StaleInv

\* A blamed entry is not missing for want of a cause.
LEMMA BlameMisses ==
  ASSUME NEW t, NEW lost, NEW why, why # "none", Blame(t, lost, why), TypeOK, UNCHANGED entry,
         NEW k \in Keys, NEW u \in Tags, NEW n, Missing(entry', cause', k, u, n)
  PROVE  Missing(entry, cause, k, u, n) /\ ~(u = t /\ k \in lost)
<1>1. cause'[k] = IF k \in lost /\ cause[k][t] = "none"
                     THEN [cause[k] EXCEPT ![t] = why] ELSE cause[k]
  BY DEF Blame
<1>2. cause[k] \in [Tags -> Causes]
  BY DEF TypeOK
<1>. QED
  BY <1>1, <1>2 DEF Missing

\* A step that leaves entries, stamps and acknowledgements alone.
LEMMA StaleKept ==
  ASSUME TypeInv, TypeInv', StaleInv, NEW c \in Calls, NEW r, Become(c, r),
         UNCHANGED <<entry, revalidatedAt, acked>>,
         \A t \in Tags : asked[t] <= asked'[t],
         \A k \in Keys : \A t \in TagsOf[k[2]] : \A n \in Nat :
             Missing(entry', cause', k, t, n) => Missing(entry, cause, k, t, n),
         \A p \in Pages : pathTags[p] \subseteq pathTags'[p],
         Asks(r, asked'), Reaches(entry', cause', pathTags', r)
  PROVE  StaleInv'
<1>1. ASSUME NEW t \in Tags
      PROVE  asked[t] \in Nat /\ asked'[t] \in Nat /\ acked[t] \in Nat /\ acked[t] <= asked[t]
  BY BoundsAssumption DEF TypeInv, TypeOK, StaleInv
<1>2. \A t \in Tags : asked[t] <= asked'[t] /\ acked'[t] <= asked'[t]
  BY <1>1
<1>3. ASSUME NEW k \in Keys, NEW t \in TagsOf[k[2]], Missing(entry', cause', k, t, acked'[t])
      PROVE  t \in pathTags'[k[2]] /\ revalidatedAt'[t] > entry'[k].lastModified
  <2>1. Missing(entry, cause, k, t, acked[t])
    BY <1>1, <1>3, KeyParts
  <2>2. Covered(k, t)
    BY <2>1 DEF StaleInv, StaleHasCause, Missing
  <2>. QED
    BY <2>2, KeyParts DEF Covered
<1>. QED
  BY <1>2, <1>3, StaleStep

\* A call that is not in the tag cache has nothing to ask and no entry to reach.
LEMMA AsksNothing ==
  ASSUME NEW r, r.pc \notin InTagCache, r.pc = "readStored" => r.now = 0
  PROVE  \A counts, entries, causes, registered :
             Asks(r, counts) /\ Reaches(entries, causes, registered, r)
BY DEF Asks, Reaches, InTagCache, Writing

\* The lookup: a reader that clears a stamp is the cause of what it uncovers.
LEMMA StaleLookup ==
  ASSUME TypeInv, TypeInv', StaleInv, NEW c \in Calls,
         \/ ReadEntry(c) \/ ReadTags(c) \/ ReadStamp(c) \/ ClearStamp(c) \/ Serve(c)
         \/ Render(c) \/ StampEntry(c) \/ Die(c)
         \/ Fail(c) /\ req[c].pc \in {"readEntry", "readTags", "writeEntry",
                                      "readStamps", "clearStamps"}
         \/ \E p \in Pages : StartRequest(c, p)
  PROVE  StaleInv'
<1>. DEFINE r == req'[c]
<1>1. /\ Become(c, r)
      /\ \A counts, entries, causes, registered :
             Asks(r, counts) /\ Reaches(entries, causes, registered, r)
  BY LookupMoves, AsksNothing
<1>2. UNCHANGED <<entry, asked, pathTags, acked>>
  BY DEF ReadEntry, ReadTags, ReadStamp, ClearStamp, Serve, Render, StampEntry, Die, Fail,
         FailRead, FailPipelineRead, StartRequest, At, redis, history
<1>3. \A t \in Tags : asked[t] \in Nat /\ acked[t] \in Nat /\ acked[t] <= asked[t]
  BY BoundsAssumption DEF TypeInv, TypeOK, StaleInv
<1>4. CASE ~ClearStamp(c)
  <2>1. UNCHANGED <<cause, revalidatedAt>>
    BY <1>4 DEF ReadEntry, ReadTags, ReadStamp, Serve, Render, StampEntry, Die, Fail,
                FailRead, FailPipelineRead, StartRequest, At, redis, history
  <2>. HIDE DEF r
  <2>. QED
    BY <1>1, <1>2, <1>3, <2>1, StaleKept
<1>5. CASE ClearStamp(c)
  <2>. DEFINE lost(t) == {k \in Carriers(t) : entry[k].lastModified < revalidatedAt[t]}
  <2>1. PICK t \in req[c].pending :
          revalidatedAt' = [revalidatedAt EXCEPT ![t] = 0] /\ Blame(t, lost(t), "consumed")
    BY <1>5 DEF ClearStamp
  <2>2. ASSUME NEW k \in Keys, NEW u \in TagsOf[k[2]], NEW n, Missing(entry', cause', k, u, n)
        PROVE  Missing(entry, cause, k, u, n) /\ ~(u = t /\ k \in lost(t))
    <3>. HIDE DEF lost
    <3>. QED
      BY <1>2, <2>1, <2>2, BlameMisses, KeyParts DEF TypeInv
  <2>3. ASSUME NEW k \in Keys, NEW u \in TagsOf[k[2]], Missing(entry', cause', k, u, acked'[u])
        PROVE  u \in pathTags'[k[2]] /\ revalidatedAt'[u] > entry'[k].lastModified
    <3>1. Missing(entry, cause, k, u, acked[u])
      BY <1>2, <2>2, <2>3
    <3>2. Covered(k, u)
      BY <3>1 DEF StaleInv, StaleHasCause, Missing
    <3>3. entry[k] \in Entry /\ u \in Tags
      BY <3>1, KeyParts DEF Missing, TypeInv, TypeOK
    <3>4. k \in Carriers(u)
      BY <3>1 DEF Missing, Carriers
    <3>5. u # t
      BY <2>2, <2>3, <3>2, <3>3, <3>4 DEF Covered, Entry, TypeInv, TypeOK
    <3>. QED
      BY <1>2, <2>1, <3>2, <3>3, <3>5 DEF Covered, TypeInv, TypeOK
  <2>. HIDE DEF r, lost
  <2>. QED
    BY <1>1, <1>2, <1>3, <2>2, <2>3, StaleStep
<1>. QED
  BY <1>4, <1>5

\* A store overlaps with every revalidation that its entry misses.
LEMMA StaleStore ==
  ASSUME TypeInv, TypeInv', StaleInv, NEW c \in Calls, WriteEntry(c)
  PROVE  StaleInv'
<1>. DEFINE r == req'[c]
<1>1. /\ Become(c, r)
      /\ \A counts, entries, causes, registered :
             Asks(r, counts) /\ Reaches(entries, causes, registered, r)
  BY LookupMoves, AsksNothing
<1>2. /\ UNCHANGED <<asked, pathTags, revalidatedAt, acked>>
      /\ entry' = [entry EXCEPT ![KeyOf(c)] = req[c].held]
      /\ cause' = [cause EXCEPT ![KeyOf(c)] =
                      [t \in Tags |-> IF req[c].held.seen[t] < asked[t] THEN "overlap" ELSE "none"]]
  BY DEF WriteEntry
<1>3. \A t \in Tags : asked[t] \in Nat /\ acked[t] \in Nat /\ acked[t] <= asked[t]
  BY BoundsAssumption DEF TypeInv, TypeOK, StaleInv
<1>4. req[c].held \in Entry \cup {NoEntry} /\ KeyOf(c) \in Keys
  BY KeyType DEF TypeInv, TypeOK, Request
<1>5. ASSUME NEW k \in Keys, NEW t \in TagsOf[k[2]], NEW n \in Nat, n <= asked[t],
             Missing(entry', cause', k, t, n)
      PROVE  k # KeyOf(c) /\ Missing(entry, cause, k, t, n)
  <2>1. t \in Tags
    BY KeyParts
  <2>2. ASSUME k = KeyOf(c) PROVE FALSE
    <3>1. /\ entry'[k] = req[c].held
          /\ cause'[k][t] = IF req[c].held.seen[t] < asked[t] THEN "overlap" ELSE "none"
      BY <1>2, <1>4, <2>1, <2>2 DEF TypeInv, TypeOK
    <3>2. req[c].held \in Entry
      BY <1>4, <1>5, <3>1 DEF Missing
    <3>3. req[c].held.seen[t] \in Nat
      BY <2>1, <3>2 DEF Entry
    <3>4. req[c].held.seen[t] < n /\ ~(req[c].held.seen[t] < asked[t])
      BY <1>5, <3>1 DEF Missing
    <3>. QED
      BY <1>3, <1>5, <2>1, <3>3, <3>4
  <2>. QED
    BY <1>2, <1>5, <2>2 DEF Missing, TypeInv, TypeOK
<1>6. ASSUME NEW k \in Keys, NEW t \in TagsOf[k[2]], Missing(entry', cause', k, t, acked'[t])
      PROVE  t \in pathTags'[k[2]] /\ revalidatedAt'[t] > entry'[k].lastModified
  <2>1. k # KeyOf(c) /\ Missing(entry, cause, k, t, acked[t])
    BY <1>2, <1>3, <1>5, <1>6, KeyParts
  <2>2. Covered(k, t)
    BY <2>1 DEF StaleInv, StaleHasCause, Missing
  <2>. QED
    BY <1>2, <2>1, <2>2 DEF Covered, TypeInv, TypeOK
<1>7. /\ \A t \in Tags : asked[t] <= asked'[t] /\ acked'[t] <= asked'[t]
      /\ \A p \in Pages : pathTags[p] \subseteq pathTags'[p]
  BY <1>2, <1>3
<1>. HIDE DEF r
<1>. QED
  BY <1>1, <1>5, <1>6, <1>7, StaleStep

\* A call that registers a stored page's tags, and stamps nothing, is no
\* revalidation either.
LEMMA AsksUnstamped ==
  ASSUME NEW r, r.pc \in {"addPath", "addTag"}, r.now = 0
  PROVE  \A counts, entries, causes, registered :
             Asks(r, counts) /\ Reaches(entries, causes, registered, r)
BY DEF Asks, Reaches, InTagCache, Writing

\* Nor does a call that has ended.
LEMMA IdleAsks ==
  \A counts, entries, causes, registered :
      Asks(Idle, counts) /\ Reaches(entries, causes, registered, Idle)
<1>1. Idle.pc \notin InTagCache /\ Idle.pc # "readStored"
  BY DEF Idle, InTagCache, Writing
<1>. QED
  BY <1>1, AsksNothing

\* After a store, and after an input that is not stamped.
LEMMA StaleUnstamped ==
  ASSUME TypeInv, TypeInv', StaleInv, NEW c \in Calls, req[c].now = 0,
         UNCHANGED <<entry, revalidatedAt, acked, asked>>,
         \A k \in Keys : \A t \in TagsOf[k[2]] : \A n \in Nat :
             Missing(entry', cause', k, t, n) => Missing(entry, cause, k, t, n),
         \A p \in Pages : pathTags[p] \subseteq pathTags'[p],
         (\E tags : Register(c, tags)) \/ Become(c, NextInput(c))
  PROVE  StaleInv'
<1>1. \A t \in Tags : asked[t] \in Nat /\ asked[t] <= asked'[t]
  BY BoundsAssumption DEF TypeInv, TypeOK
<1>2. PICK r : /\ Become(c, r)
               /\ r = Idle \/ (r.pc = "addPath" /\ r.now = 0)
  <2>1. CASE Become(c, NextInput(c))
    BY <2>1, WriterRecords DEF TypeInv, Moved
  <2>2. ASSUME NEW tags, Register(c, tags)
        PROVE  \E r : Become(c, r) /\ (r = Idle \/ (r.pc = "addPath" /\ r.now = 0))
    <3>. DEFINE q == [req[c] EXCEPT !.pc = "addPath",
                                    !.todo = {[tag |-> t, page |-> req[c].page] : t \in tags}]
    <3>1. tags # {} => q.pc = "addPath" /\ q.now = 0
      BY WriterRecords DEF TypeInv, Moved
    <3>2. Become(c, IF tags = {} THEN Idle ELSE q)
      BY <2>2 DEF Register
    <3>. HIDE DEF q
    <3>. QED
      BY <3>1, <3>2
  <2>. QED
    BY <2>1, <2>2
<1>3. \A counts, entries, causes, registered :
          Asks(r, counts) /\ Reaches(entries, causes, registered, r)
  BY <1>2, AsksUnstamped, IdleAsks
<1>. QED
  BY <1>1, <1>2, <1>3, StaleKept

\* The choice of the tags to register.
LEMMA StaleRegister ==
  ASSUME TypeInv, TypeInv', StaleInv, NEW c \in Calls, At(c, "readStored"),
         ReadStored(c) \/ Fail(c)
  PROVE  StaleInv'
<1>1. req[c].now = 0
  BY DEF StaleInv, Asks, At
<1>2. \E tags : Register(c, tags)
  BY DEF ReadStored, Fail, At
<1>3. UNCHANGED <<entry, pathTags, revalidatedAt, acked, asked, cause>>
  BY DEF ReadStored, Fail, At, redis, history
<1>. QED
  BY <1>1, <1>2, <1>3, StaleUnstamped

\* An input is taken: it is the one that the pipeline is about.
LEMMA StaleTake ==
  ASSUME TypeInv, TypeInv', StaleInv, NEW c \in Calls, At(c, "addPath"),
         AddPath(c) \/ Fail(c)
  PROVE  StaleInv'
<1>1. PICK i \in req[c].todo :
        Become(c, [req[c] EXCEPT !.pc = "addTag", !.item = i, !.todo = @ \ {i}])
  BY DEF AddPath, Fail, FailAddPath, At
<1>. DEFINE r == [req[c] EXCEPT !.pc = "addTag", !.item = i, !.todo = @ \ {i}]
<1>2. /\ r.pc = "addTag" /\ r.todo = req[c].todo \ {i} /\ r.item = i
      /\ r.tag = req[c].tag /\ r.now = req[c].now /\ r.round = req[c].round
  BY TakenRecord DEF TypeInv, Moved
<1>3. UNCHANGED <<entry, pathTags, revalidatedAt, acked, asked, cause>>
  BY DEF AddPath, Fail, FailAddPath, At, redis, history
<1>4. \A t \in Tags : asked[t] \in Nat /\ asked[t] <= asked'[t]
  BY <1>3, BoundsAssumption DEF TypeInv, TypeOK
<1>5. Asks(req[c], asked) /\ Reaches(entry, cause, pathTags, req[c]) /\ req[c].pc = "addPath"
  BY DEF StaleInv, At
<1>. HIDE DEF r
<1>6. Asks(r, asked')
  BY <1>2, <1>3, <1>5 DEF Asks, InTagCache, Writing
<1>7. Reaches(entry', cause', pathTags', r)
  BY <1>2, <1>3, <1>5 DEF Reaches, Writing
<1>. QED
  BY <1>1, <1>3, <1>4, <1>6, <1>7, StaleKept DEF r

\* The page is registered, or an error keeps it out and is the cause of what
\* follows.
LEMMA StaleAddTag ==
  ASSUME TypeInv, TypeInv', StaleInv, NEW c \in Calls, At(c, "addTag"),
         AddTag(c) \/ Fail(c)
  PROVE  StaleInv'
<1>. DEFINE i == req[c].item
            lost == IF req[c].now = 0 THEN {} ELSE Carriers(i.tag)
<1>1. /\ Become(c, AfterAddTag(c))
      /\ UNCHANGED <<entry, revalidatedAt, acked, asked>>
      /\ \/ UNCHANGED cause /\ pathTags' = [pathTags EXCEPT ![i.page] = @ \cup {i.tag}]
         \/ UNCHANGED pathTags /\ Blame(i.tag, lost, "fault")
  BY DEF AddTag, Fail, FailAddTag, At, redis, history
<1>2. i \in Inputs /\ i.page \in Pages /\ i.tag \in Tags
  BY DEF TypeInv, TypeOK, Request, Inputs
<1>3. ASSUME NEW k \in Keys, NEW t \in TagsOf[k[2]], NEW n, Missing(entry', cause', k, t, n)
      PROVE  /\ Missing(entry, cause, k, t, n)
             /\ (t = i.tag /\ req[c].now # 0) => i.tag \in pathTags'[i.page]
  <2>1. CASE UNCHANGED cause /\ pathTags' = [pathTags EXCEPT ![i.page] = @ \cup {i.tag}]
    BY <1>1, <1>2, <1>3, <2>1 DEF Missing, TypeInv, TypeOK
  <2>2. CASE Blame(i.tag, lost, "fault")
    <3>1. Missing(entry, cause, k, t, n) /\ ~(t = i.tag /\ k \in lost)
      <4>. HIDE DEF i, lost
      <4>. QED
        BY <1>1, <1>3, <2>2, BlameMisses, KeyParts DEF TypeInv
    <3>. QED
      BY <3>1 DEF Carriers, Missing
  <2>. QED
    BY <1>1, <2>1, <2>2
<1>4. \A p \in Pages : pathTags[p] \subseteq pathTags'[p]
  BY <1>1, <1>2 DEF TypeInv, TypeOK
<1>5. \A t \in Tags : asked[t] \in Nat /\ asked[t] <= asked'[t]
  BY <1>1, BoundsAssumption DEF TypeInv, TypeOK
<1>6. CASE req[c].now = 0
  <2>1. Become(c, NextInput(c))
    BY <1>1, <1>6, WriterRecords DEF TypeInv
  <2>. HIDE DEF i, lost
  <2>. QED
    BY <1>1, <1>3, <1>4, <1>6, <2>1, StaleUnstamped
<1>7. CASE req[c].now # 0
  <2>. DEFINE r == AfterAddTag(c)
  <2>1. Moved(r, c, "setStamp", req[c].todo)
    BY <1>7, WriterRecords DEF TypeInv
  <2>2. Asks(req[c], asked) /\ Reaches(entry, cause, pathTags, req[c]) /\ req[c].pc = "addTag"
    BY DEF StaleInv, At
  <2>3. req[c].tag = i.tag
    BY <1>7, <2>2 DEF Asks
  <2>. HIDE DEF r, i, lost
  <2>4. Asks(r, asked')
    BY <1>1, <1>7, <2>1, <2>2 DEF Asks, Moved, InTagCache, Writing
  <2>5. Reaches(entry', cause', pathTags', r)
    <3> SUFFICES ASSUME NEW k \in Keys, r.tag \in TagsOf[k[2]],
                        Missing(entry', cause', k, r.tag, r.round)
                 PROVE  r.tag \in pathTags'[k[2]] \/ \E j \in r.todo : j.page = k[2]
      BY DEF Reaches
    <3>1. /\ r.tag = req[c].tag /\ r.round = req[c].round /\ r.todo = req[c].todo
      BY <2>1 DEF Moved
    <3>2. Missing(entry, cause, k, req[c].tag, req[c].round) /\ i.tag \in pathTags'[i.page]
      BY <1>3, <1>7, <2>3, <3>1
    <3>3. \/ r.tag \in pathTags[k[2]]
          \/ \E j \in r.todo : j.page = k[2]
          \/ i.page = k[2]
      BY <1>7, <2>2, <3>1, <3>2 DEF Reaches, Writing, i
    <3>. QED
      BY <1>4, <2>3, <3>1, <3>2, <3>3, KeyParts
  <2>. QED
    BY <1>1, <1>3, <1>4, <1>5, <2>4, <2>5, StaleKept DEF r
<1>. QED
  BY <1>6, <1>7

\* What Acknowledge records: the call's own revalidation, if no input is left.
LEMMA AcknowledgeIs ==
  ASSUME TypeInv, StaleInv, NEW c \in Calls, Acknowledge(c),
         req[c].pc \in InTagCache, req[c].now # 0, UNCHANGED asked
  PROVE  \A t \in Tags :
           /\ asked[t] \in Nat /\ asked[t] <= asked'[t] /\ acked'[t] <= asked'[t]
           /\ acked'[t] # acked[t] =>
                  t = req[c].tag /\ req[c].todo = {} /\ acked'[t] = req[c].round
<1>. SUFFICES ASSUME NEW t \in Tags
              PROVE  /\ asked[t] \in Nat /\ asked[t] <= asked'[t] /\ acked'[t] <= asked'[t]
                     /\ acked'[t] # acked[t] =>
                            t = req[c].tag /\ req[c].todo = {} /\ acked'[t] = req[c].round
  OBVIOUS
<1>1. /\ asked[t] \in Nat /\ acked[t] \in Nat /\ acked[t] <= asked[t]
      /\ req[c].round \in Nat /\ req[c].round <= asked[req[c].tag]
  BY BoundsAssumption DEF TypeInv, TypeOK, StaleInv, Asks, Request
<1>2. acked'[t] = IF t = req[c].tag /\ req[c].todo = {} /\ req[c].round > acked[t]
                     THEN req[c].round ELSE acked[t]
  BY DEF Acknowledge, TypeInv, TypeOK
<1>. QED
  BY <1>1, <1>2

\* The next input of a revalidation, when what its tag's entries miss is blamed
\* or still to be reached.
LEMMA NextInputAsks ==
  ASSUME TypeInv, StaleInv, NEW c \in Calls, req[c].pc \in InTagCache, req[c].now # 0,
         UNCHANGED asked,
         \A k \in Keys : (req[c].tag \in TagsOf[k[2]]
                          /\ Missing(entry', cause', k, req[c].tag, req[c].round)) =>
             \/ req[c].tag \in pathTags'[k[2]]
             \/ \E i \in req[c].todo : i.page = k[2]
  PROVE  Asks(NextInput(c), asked') /\ Reaches(entry', cause', pathTags', NextInput(c))
<1>1. CASE req[c].todo = {}
  BY <1>1, IdleAsks, WriterRecords DEF TypeInv
<1>2. CASE req[c].todo # {}
  <2>. DEFINE r == NextInput(c)
  <2>1. Moved(r, c, "addPath", req[c].todo)
    BY <1>2, WriterRecords DEF TypeInv
  <2>2. Asks(req[c], asked)
    BY DEF StaleInv
  <2>. HIDE DEF r
  <2>3. Asks(r, asked')
    BY <2>1, <2>2 DEF Asks, Moved, InTagCache, Writing
  <2>4. Reaches(entry', cause', pathTags', r)
    BY <2>1 DEF Reaches, Moved
  <2>. QED
    BY <2>3, <2>4 DEF r
<1>. QED
  BY <1>1, <1>2

\* The stamp is SET: it covers the carriers that are older, and is the cause of
\* what it does not cover.
LEMMA StaleStamp ==
  ASSUME TypeInv, TypeInv', StaleInv, NEW c \in Calls, SetStamp(c)
  PROVE  StaleInv'
<1>. DEFINE t == req[c].tag
            now == req[c].now
            lost == {k \in Carriers(t) : entry[k].lastModified >= now}
            why == IF revalidatedAt[t] > now THEN "regress" ELSE "tie"
<1>1. /\ revalidatedAt' = [revalidatedAt EXCEPT ![t] = now]
      /\ Blame(t, lost, why) /\ why # "none"
      /\ Acknowledge(c) /\ Become(c, NextInput(c)) /\ req[c].pc = "setStamp"
      /\ UNCHANGED <<entry, pathTags, asked>>
  BY DEF SetStamp, At
<1>2. /\ Asks(req[c], asked) /\ Reaches(entry, cause, pathTags, req[c])
      /\ now # 0 /\ now \in Nat /\ t \in Tags /\ req[c].pc \in InTagCache
  BY <1>1 DEF StaleInv, Asks, TypeInv, TypeOK, Request, InTagCache, Writing
<1>3. \A u \in Tags :
        /\ asked[u] \in Nat /\ asked[u] <= asked'[u] /\ acked'[u] <= asked'[u]
        /\ acked'[u] # acked[u] => u = t /\ req[c].todo = {} /\ acked'[u] = req[c].round
  BY <1>1, <1>2, AcknowledgeIs
<1>4. ASSUME NEW k \in Keys, NEW u \in TagsOf[k[2]], NEW n, Missing(entry', cause', k, u, n)
      PROVE  Missing(entry, cause, k, u, n) /\ ~(u = t /\ k \in lost)
  <2>. HIDE DEF lost, why, t
  <2>. QED
    BY <1>1, <1>4, BlameMisses, KeyParts DEF TypeInv
<1>5. Asks(NextInput(c), asked') /\ Reaches(entry', cause', pathTags', NextInput(c))
  <2>1. ASSUME NEW k \in Keys, t \in TagsOf[k[2]], Missing(entry', cause', k, t, req[c].round)
        PROVE  t \in pathTags'[k[2]] \/ \E i \in req[c].todo : i.page = k[2]
    <3>1. Missing(entry, cause, k, t, req[c].round)
      BY <1>4, <2>1
    <3>. QED
      BY <1>1, <1>2, <2>1, <3>1 DEF Reaches, Writing
  <2>. QED
    BY <1>1, <1>2, <2>1, NextInputAsks
<1>6. ASSUME NEW k \in Keys, NEW u \in TagsOf[k[2]], Missing(entry', cause', k, u, acked'[u])
      PROVE  u \in pathTags'[k[2]] /\ revalidatedAt'[u] > entry'[k].lastModified
  <2>1. u \in Tags /\ Missing(entry, cause, k, u, acked'[u]) /\ ~(u = t /\ k \in lost)
    BY <1>4, <1>6, KeyParts
  <2>2. entry[k] \in Entry
    BY <2>1 DEF Missing, TypeInv, TypeOK
  <2>3. ASSUME acked'[u] = acked[u] PROVE Covered(k, u)
    BY <2>1, <2>3 DEF StaleInv, StaleHasCause, Missing
  <2>4. CASE u # t
    <3>1. Covered(k, u) /\ revalidatedAt'[u] = revalidatedAt[u]
      BY <1>1, <1>3, <2>1, <2>3, <2>4 DEF TypeInv, TypeOK
    <3>. QED
      BY <1>1, <3>1 DEF Covered
  <2>5. CASE u = t
    <3>1. k \in Carriers(t)
      BY <2>1, <2>5 DEF Carriers, Missing
    <3>2. entry[k].lastModified < now /\ revalidatedAt'[u] = now
      BY <1>1, <1>2, <2>1, <2>2, <2>5, <3>1 DEF Entry, TypeInv, TypeOK
    <3>3. u \in pathTags[k[2]]
      <4>1. CASE acked'[u] = acked[u]
        BY <2>3, <4>1 DEF Covered
      <4>2. CASE acked'[u] # acked[u]
        BY <1>1, <1>2, <1>3, <2>1, <2>5, <4>2 DEF Reaches, Writing
      <4>. QED
        BY <4>1, <4>2
    <3>. QED
      BY <1>1, <2>2, <3>2, <3>3 DEF Entry
  <2>. QED
    BY <2>4, <2>5
<1>7. \A k \in Keys : \A u \in TagsOf[k[2]] : \A n \in Nat :
          Missing(entry', cause', k, u, n) => Missing(entry, cause, k, u, n)
  BY <1>4
<1>8. \A p \in Pages : pathTags[p] \subseteq pathTags'[p]
  BY <1>1
<1>9. Become(c, NextInput(c))
  BY <1>1
<1>. HIDE DEF t, now, lost, why
<1>. QED
  BY <1>3, <1>5, <1>6, <1>7, <1>8, <1>9, StaleStep

\* getByTag finds the pages that are registered; the others go unrevalidated.
LEMMA StaleReadPaths ==
  ASSUME TypeInv, TypeInv', StaleInv, NEW c \in Calls, ReadPaths(c)
  PROVE  StaleInv'
<1>. DEFINE t == req[c].tag
            paths == tagPaths[t]
            lost == {k \in Carriers(t) : k[2] \notin paths}
            r == Found(c, paths)
<1>1. /\ Blame(t, lost, "unregistered") /\ Become(c, r) /\ req[c].pc = "readPaths"
      /\ IF paths = {} THEN Acknowledge(c) ELSE UNCHANGED acked
      /\ UNCHANGED <<entry, pathTags, asked, revalidatedAt>>
  BY DEF ReadPaths, At, redis
<1>2. /\ Asks(req[c], asked) /\ req[c].now # 0 /\ t \in Tags /\ req[c].pc \in InTagCache
  BY <1>1 DEF StaleInv, Asks, TypeInv, TypeOK, Request, InTagCache
<1>3. ASSUME NEW k \in Keys, NEW u \in TagsOf[k[2]], NEW n, Missing(entry', cause', k, u, n)
      PROVE  Missing(entry, cause, k, u, n) /\ ~(u = t /\ k \in lost)
  <2>. HIDE DEF lost, t, r
  <2>. QED
    BY <1>1, <1>3, BlameMisses, KeyParts DEF TypeInv
<1>4. ASSUME NEW k \in Keys, t \in TagsOf[k[2]], NEW n, Missing(entry', cause', k, t, n)
      PROVE  k[2] \in paths
  <2>1. k \in Carriers(t) /\ k \notin lost
    BY <1>3, <1>4 DEF Carriers, Missing
  <2>. QED
    BY <2>1
<1>5. \A k \in Keys : \A u \in TagsOf[k[2]] : \A n \in Nat :
          Missing(entry', cause', k, u, n) => Missing(entry, cause, k, u, n)
  BY <1>3
<1>6. \A p \in Pages : pathTags[p] \subseteq pathTags'[p]
  BY <1>1
<1>7. CASE paths = {}
  <2>1. \A u \in Tags :
          /\ asked[u] \in Nat /\ asked[u] <= asked'[u] /\ acked'[u] <= asked'[u]
          /\ acked'[u] # acked[u] => u = t /\ req[c].todo = {} /\ acked'[u] = req[c].round
    BY <1>1, <1>2, <1>7, AcknowledgeIs
  <2>2. Asks(r, asked') /\ Reaches(entry', cause', pathTags', r)
    BY <1>7, IdleAsks DEF Found
  <2>3. ASSUME NEW k \in Keys, NEW u \in TagsOf[k[2]], Missing(entry', cause', k, u, acked'[u])
        PROVE  u \in pathTags'[k[2]] /\ revalidatedAt'[u] > entry'[k].lastModified
    <3>1. u # t /\ u \in Tags
      BY <1>4, <1>7, <2>3, KeyParts
    <3>2. Missing(entry, cause, k, u, acked[u])
      BY <1>3, <2>1, <2>3, <3>1
    <3>3. Covered(k, u)
      BY <3>2 DEF StaleInv, StaleHasCause, Missing
    <3>. QED
      BY <1>1, <3>3 DEF Covered
  <2>. HIDE DEF t, lost, r
  <2>. QED
    BY <1>1, <1>5, <1>6, <2>1, <2>2, <2>3, StaleStep
<1>8. CASE paths # {}
  <2>1. Moved(r, c, "addPath", {[tag |-> t, page |-> p] : p \in paths})
    BY <1>8, WriterRecords DEF TypeInv
  <2>2. \A u \in Tags : asked[u] <= asked'[u]
    BY <1>1, BoundsAssumption DEF TypeInv, TypeOK
  <2>3. Asks(r, asked')
    <3>. HIDE DEF r
    <3>. QED
      BY <1>1, <1>2, <2>1 DEF Asks, Moved, InTagCache, Writing
  <2>4. Reaches(entry', cause', pathTags', r)
    <3> SUFFICES ASSUME NEW k \in Keys, r.tag \in TagsOf[k[2]],
                        Missing(entry', cause', k, r.tag, r.round)
                 PROVE  \E i \in r.todo : i.page = k[2]
      BY DEF Reaches
    <3>1. r.tag = t /\ r.todo = {[tag |-> t, page |-> p] : p \in paths}
      BY <2>1 DEF Moved
    <3>2. k[2] \in paths
      BY <1>4, <3>1
    <3>3. [tag |-> t, page |-> k[2]] \in r.todo
      BY <3>1, <3>2
    <3>. QED
      BY <3>3
  <2>. HIDE DEF t, lost, r
  <2>. QED
    BY <1>1, <1>5, <1>6, <1>8, <2>2, <2>3, <2>4, StaleKept
<1>. QED
  BY <1>7, <1>8

\* An error that the revalidation swallows is the cause of all that its tag's
\* entries miss.
LEMMA StaleFault ==
  ASSUME TypeInv, TypeInv', StaleInv, NEW c \in Calls, req[c].pc \in {"readPaths", "setStamp"},
         Fail(c)
  PROVE  StaleInv'
<1>. DEFINE t == req[c].tag
            lost == Carriers(t)
<1>1. /\ Blame(t, lost, "fault") /\ Become(c, NextInput(c)) /\ Acknowledge(c)
      /\ UNCHANGED <<entry, pathTags, asked, revalidatedAt>>
  BY DEF Fail, FailRevalidation, At, redis
<1>2. /\ req[c].now # 0 /\ t \in Tags /\ req[c].pc \in InTagCache
  BY DEF StaleInv, Asks, TypeInv, TypeOK, Request, InTagCache, Writing
<1>3. \A u \in Tags :
        /\ asked[u] \in Nat /\ asked[u] <= asked'[u] /\ acked'[u] <= asked'[u]
        /\ acked'[u] # acked[u] => u = t /\ req[c].todo = {} /\ acked'[u] = req[c].round
  BY <1>1, <1>2, AcknowledgeIs
<1>4. ASSUME NEW k \in Keys, NEW u \in TagsOf[k[2]], NEW n, Missing(entry', cause', k, u, n)
      PROVE  Missing(entry, cause, k, u, n) /\ u # t
  <2>1. Missing(entry, cause, k, u, n) /\ ~(u = t /\ k \in lost)
    <3>. HIDE DEF lost, t
    <3>. QED
      BY <1>1, <1>4, BlameMisses, KeyParts DEF TypeInv
  <2>. QED
    BY <2>1 DEF Carriers, Missing
<1>5. Asks(NextInput(c), asked') /\ Reaches(entry', cause', pathTags', NextInput(c))
  BY <1>1, <1>2, <1>4, NextInputAsks
<1>6. ASSUME NEW k \in Keys, NEW u \in TagsOf[k[2]], Missing(entry', cause', k, u, acked'[u])
      PROVE  u \in pathTags'[k[2]] /\ revalidatedAt'[u] > entry'[k].lastModified
  <2>1. Missing(entry, cause, k, u, acked[u])
    BY <1>3, <1>4, <1>6, KeyParts
  <2>2. Covered(k, u)
    BY <2>1 DEF StaleInv, StaleHasCause, Missing
  <2>. QED
    BY <1>1, <2>2 DEF Covered
<1>7. \A k \in Keys : \A u \in TagsOf[k[2]] : \A n \in Nat :
          Missing(entry', cause', k, u, n) => Missing(entry, cause, k, u, n)
  BY <1>4
<1>8. /\ \A p \in Pages : pathTags[p] \subseteq pathTags'[p]
      /\ Become(c, NextInput(c))
  BY <1>1
<1>. HIDE DEF t, lost
<1>. QED
  BY <1>3, <1>5, <1>6, <1>7, <1>8, StaleStep

\* A revalidation starts with a stamp that is a time, and its own number.
LEMMA StaleStart ==
  ASSUME TypeInv, TypeInv', StaleInv, NEW c \in Calls, NEW t \in Tags, StartRevalidation(c, t)
  PROVE  StaleInv'
<1>. DEFINE r == [Idle EXCEPT !.pc = "readPaths", !.tag = t, !.now = clock,
                              !.round = asked[t] + 1]
<1>1. /\ Become(c, r) /\ asked' = [asked EXCEPT ![t] = @ + 1]
      /\ UNCHANGED <<entry, cause, pathTags, revalidatedAt, acked>>
  BY DEF StartRevalidation, redis, history
<1>2. /\ r.pc = "readPaths" /\ r.now = clock /\ r.todo = {} /\ r.tag = t /\ r.round = asked[t] + 1
  BY DEF Idle
<1>3. clock \in Nat /\ clock # 0 /\ \A u \in Tags : asked[u] \in Nat
  BY BoundsAssumption DEF TypeInv, TypeOK
<1>4. asked'[t] = asked[t] + 1 /\ \A u \in Tags : asked[u] <= asked'[u]
  BY <1>1, <1>3 DEF TypeInv, TypeOK
<1>. HIDE DEF r
<1>5. Asks(r, asked') /\ Reaches(entry', cause', pathTags', r)
  BY <1>2, <1>3, <1>4 DEF Asks, Reaches, InTagCache, Writing
<1>. QED
  BY <1>1, <1>4, <1>5, StaleKept

\* An entry that expires misses nothing any more.
LEMMA StaleExpire ==
  ASSUME TypeInv, StaleInv, NEW k \in Keys, Expire(k)
  PROVE  StaleInv'
<1>1. UNCHANGED <<asked, pathTags, revalidatedAt, req, acked>>
  BY DEF Expire
<1>2. ASSUME NEW j \in Keys, NEW t, NEW n, Missing(entry', cause', j, t, n)
      PROVE  Missing(entry, cause, j, t, n) /\ entry'[j] = entry[j]
  <2>1. j # k
    BY <1>2 DEF Expire, Missing, TypeInv, TypeOK
  <2>. QED
    BY <1>2, <2>1 DEF Expire, Missing, TypeInv, TypeOK
<1>3. \A c \in Calls : Asks(req'[c], asked') /\ Reaches(entry', cause', pathTags', req'[c])
  <2>1. \A c \in Calls : Asks(req[c], asked) /\ Reaches(entry, cause, pathTags, req[c])
    BY DEF StaleInv
  <2>. QED
    BY <1>1, <1>2, <2>1 DEF Reaches
<1>4. StaleHasCause'
  <2> SUFFICES ASSUME NEW j \in Keys, NEW t \in TagsOf[j[2]], Missing(entry', cause', j, t, acked[t])
               PROVE  Covered(j, t)'
    BY <1>1 DEF StaleHasCause, Missing
  <2>1. Covered(j, t)
    BY <1>2 DEF StaleInv, StaleHasCause, Missing
  <2>. QED
    BY <1>1, <1>2, <2>1 DEF Covered
<1>. QED
  BY <1>1, <1>3, <1>4 DEF StaleInv

\* Every step keeps the invariant.
LEMMA StaleNext == TypeInv /\ TypeInv' /\ StaleInv /\ [Next]_vars => StaleInv'
<1>. SUFFICES ASSUME TypeInv, TypeInv', StaleInv, [Next]_vars
              PROVE  StaleInv'
  OBVIOUS
<1>1. CASE UNCHANGED vars \/ Tick
  <2>1. UNCHANGED <<asked, entry, cause, pathTags, revalidatedAt, req, acked>>
    BY <1>1 DEF vars, Tick, redis, history
  <2>. QED
    BY <2>1 DEF StaleInv, StaleHasCause, Covered
<1>2. ASSUME NEW c \in Calls, Step(c) \/ Die(c) \/ \E p \in Pages : StartRequest(c, p)
      PROVE  StaleInv'
  BY <1>2, StaleLookup, StaleStore, StaleRegister, StaleTake, StaleAddTag, StaleStamp,
     StaleReadPaths DEF Step, ReadStored, AddPath, AddTag
<1>3. ASSUME NEW c \in Calls, Fail(c)
      PROVE  StaleInv'
  BY <1>3, StaleLookup, StaleRegister, StaleTake, StaleAddTag, StaleFault DEF Fail, At
<1>4. ASSUME NEW c \in Calls, NEW t \in Tags, StartRevalidation(c, t)
      PROVE  StaleInv'
  BY <1>4, StaleStart
<1>5. ASSUME NEW k \in Keys, Expire(k)
      PROVE  StaleInv'
  BY <1>5, StaleExpire
<1>. QED
  BY <1>1, <1>2, <1>3, <1>4, <1>5 DEF Next

\* An entry of redis-cache.ts that predates a revalidation whose caller has been
\* answered is covered by a stamp of redis-tag-cache.ts, or lost its cover in
\* one of the known ways, whichever commands fail and wherever calls die: there
\* is no other way for a stale page to stay.
THEOREM StaleIsExplained == Spec => []StaleHasCause
<1>1. StaleInv => StaleHasCause
  BY DEF StaleInv
<1>. QED
  BY <1>1, StaleInit, StaleNext, TypeInvariance, PTL DEF Spec

----------------------------------------------------------------------------
(* CachedIsRegistered.  A call that stores an entry stays with its page    *)
(* until every tag of the page is in both indexes: at each stage, a tag    *)
(* is indexed, among the inputs to come, or the input being written.       *)

Indexed(listed, registered, p) ==
    \A t \in TagsOf[p] : p \in listed[t] /\ t \in registered[p]

Registering(r, p) ==
    /\ r.page = p /\ r.now = 0
    /\ r.pc \in {"readStored", "addPath", "addTag"}

Registers(listed, registered, r) ==
    (r.pc \in {"addPath", "addTag"} /\ r.now = 0) => \A t \in TagsOf[r.page] :
        \/ r.page \in listed[t] /\ t \in registered[r.page]
        \/ [tag |-> t, page |-> r.page] \in r.todo
        \/ r.pc = "addTag" /\ r.item = [tag |-> t, page |-> r.page]

RegInv ==
    /\ \A c \in Calls : Registers(tagPaths, pathTags, req[c])
    /\ \A k \in Keys : entry[k] # NoEntry =>
           Indexed(tagPaths, pathTags, k[2]) \/ \E c \in Calls : Registering(req[c], k[2])

\* The two SADDs of a stored page's tags do not fail, and a call does not die
\* before it has sent them.
SaddsArrive ==
    /\ {"addPath", "addTag"} \cap Failing = {}
    /\ {"readStored", "addPath", "addTag"} \cap Dying = {}

\* At first nothing is cached.
LEMMA RegInit == Init => RegInv
<1>1. Idle.pc = "idle"
  BY DEF Idle
<1>. QED
  BY <1>1 DEF Init, RegInv, Registers

\* No step takes a page or a tag off an index.
LEMMA IndexesGrow ==
  ASSUME TypeOK, [Next]_vars
  PROVE  /\ \A t \in Tags : tagPaths[t] \subseteq tagPaths'[t]
         /\ \A p \in Pages : pathTags[p] \subseteq pathTags'[p]
<1>1. CASE UNCHANGED <<tagPaths, pathTags>>
  BY <1>1
<1>2. ASSUME NEW c \in Calls, AddPath(c)
      PROVE  /\ \A t \in Tags : tagPaths[t] \subseteq tagPaths'[t]
             /\ UNCHANGED pathTags
  BY <1>2 DEF AddPath, TypeOK
<1>3. ASSUME NEW c \in Calls, AddTag(c)
      PROVE  /\ \A p \in Pages : pathTags[p] \subseteq pathTags'[p]
             /\ UNCHANGED tagPaths
  BY <1>3 DEF AddTag, TypeOK
<1>4. ASSUME NEW c \in Calls,
             \/ Fail(c) \/ Die(c)
             \/ \E p \in Pages : StartRequest(c, p)
             \/ \E t \in Tags : StartRevalidation(c, t)
             \/ Step(c) /\ ~AddPath(c) /\ ~AddTag(c)
      PROVE  UNCHANGED <<tagPaths, pathTags>>
  <2>1. CASE Fail(c) \/ Die(c) \/ (\E p \in Pages : StartRequest(c, p))
             \/ (\E t \in Tags : StartRevalidation(c, t))
    BY <2>1 DEF Fail, Die, StartRequest, StartRevalidation, redis
  <2>2. CASE Step(c) /\ ~AddPath(c) /\ ~AddTag(c)
    BY <2>2 DEF Step, ReadEntry, ReadTags, ReadStamp, ClearStamp, Serve, Render, StampEntry,
                WriteEntry, ReadStored, SetStamp, ReadPaths, redis
  <2>. QED
    BY <1>4, <2>1, <2>2
<1>5. CASE Tick \/ (\E k \in Keys : Expire(k)) \/ UNCHANGED vars
  BY <1>1, <1>5 DEF Tick, Expire, vars, redis
<1>. QED
  BY <1>1, <1>2, <1>3, <1>4, <1>5 DEF Next, Step

\* What RegInv asks of a step of one call: its next record registers, and it
\* stays with its page as long as the page is not indexed.
LEMMA RegStep ==
  ASSUME TypeInv, RegInv, [Next]_vars, NEW c \in Calls, NEW r, Become(c, r),
         Registers(tagPaths', pathTags', r),
         \A k \in Keys : entry'[k] # NoEntry => entry[k] # NoEntry \/ Registering(r, k[2]),
         Registering(req[c], req[c].page) =>
             Registering(r, req[c].page) \/ Indexed(tagPaths', pathTags', req[c].page)
  PROVE  RegInv'
<1>1. /\ req'[c] = r
      /\ \A d \in Calls : d # c => req'[d] = req[d]
  BY Becomes DEF TypeInv
<1>2. /\ \A t \in Tags : tagPaths[t] \subseteq tagPaths'[t]
      /\ \A p \in Pages : pathTags[p] \subseteq pathTags'[p]
  BY IndexesGrow DEF TypeInv
<1>3. \A p \in Pages : TagsOf[p] \in SUBSET Tags
  BY TagsOfAssumption
<1>4. \A d \in Calls : req[d].page \in Pages
  BY DEF TypeInv, TypeOK, Request
<1>5. ASSUME NEW d \in Calls
      PROVE  Registers(tagPaths', pathTags', req'[d])
  <2>1. CASE d = c
    BY <1>1, <2>1
  <2>2. CASE d # c
    <3>1. Registers(tagPaths, pathTags, req[d]) /\ req'[d] = req[d]
      BY <1>1, <2>2 DEF RegInv
    <3>. QED
      BY <1>2, <1>3, <1>4, <3>1 DEF Registers
  <2>. QED
    BY <2>1, <2>2
<1>6. ASSUME NEW p \in Pages, Indexed(tagPaths, pathTags, p)
      PROVE  Indexed(tagPaths', pathTags', p)
  BY <1>2, <1>3, <1>6 DEF Indexed
<1>7. ASSUME NEW k \in Keys, entry'[k] # NoEntry
      PROVE  Indexed(tagPaths', pathTags', k[2]) \/ \E d \in Calls : Registering(req'[d], k[2])
  <2>1. k[2] \in Pages
    BY KeyParts
  <2>2. CASE Registering(r, k[2])
    BY <1>1, <2>2
  <2>3. ASSUME NEW d \in Calls, Registering(req[d], k[2])
        PROVE  Indexed(tagPaths', pathTags', k[2]) \/ \E e \in Calls : Registering(req'[e], k[2])
    <3>1. CASE d # c
      BY <1>1, <2>3, <3>1
    <3>2. CASE d = c
      <4>1. req[c].page = k[2]
        BY <2>3, <3>2 DEF Registering
      <4>. QED
        BY <1>1, <2>3, <3>2, <4>1
    <3>. QED
      BY <3>1, <3>2
  <2>4. CASE entry[k] # NoEntry
    BY <1>6, <2>1, <2>3, <2>4 DEF RegInv
  <2>. QED
    BY <1>7, <2>2, <2>4
<1>. QED
  BY <1>5, <1>7 DEF RegInv

\* A call outside writeTags registers nothing.
LEMMA RegAway ==
  ASSUME TypeInv, RegInv, [Next]_vars, NEW c \in Calls, NEW r, Become(c, r),
         r.pc \notin {"addPath", "addTag"} \/ r.now # 0,
         req[c].pc \notin {"readStored", "addPath", "addTag"} \/ req[c].now # 0,
         UNCHANGED entry
  PROVE  RegInv'
<1>1. Registers(tagPaths', pathTags', r) /\ ~Registering(req[c], req[c].page)
  BY DEF Registers, Registering
<1>. QED
  BY <1>1, RegStep

\* Lookups, and the store that starts a registration.
LEMMA RegLookup ==
  ASSUME TypeInv, RegInv, SaddsArrive, [Next]_vars, NEW c \in Calls,
         \/ ReadEntry(c) \/ ReadTags(c) \/ ReadStamp(c) \/ ClearStamp(c) \/ Serve(c)
         \/ Render(c) \/ StampEntry(c) \/ WriteEntry(c) \/ Die(c)
         \/ Fail(c) /\ req[c].pc \in {"readEntry", "readTags", "writeEntry",
                                      "readStamps", "clearStamps"}
         \/ \E p \in Pages : StartRequest(c, p)
  PROVE  RegInv'
<1>1. Become(c, req'[c]) /\ req'[c].pc \notin {"addPath", "addTag"}
  BY LookupMoves DEF InTagCache, Writing
<1>2. req[c].pc \notin {"readStored", "addPath", "addTag"}
  BY DEF ReadEntry, ReadTags, ReadStamp, ClearStamp, Serve, Render, StampEntry, WriteEntry, Die,
         Fail, StartRequest, At, SaddsArrive
<1>3. CASE ~WriteEntry(c)
  <2>1. UNCHANGED entry
    BY <1>3 DEF ReadEntry, ReadTags, ReadStamp, ClearStamp, Serve, Render, StampEntry, Die, Fail,
                StartRequest, redis
  <2>. QED
    BY <1>1, <1>2, <2>1, RegAway
<1>4. CASE WriteEntry(c)
  <2>1. Become(c, Stored(c)) /\ entry' = [entry EXCEPT ![KeyOf(c)] = req[c].held]
    BY <1>4 DEF WriteEntry
  <2>2. Stored(c).pc = "readStored" /\ Stored(c).now = 0 /\ Stored(c).page = KeyOf(c)[2]
    BY Records DEF TypeInv, KeyOf
  <2>3. Registers(tagPaths', pathTags', Stored(c))
    BY <2>2 DEF Registers
  <2>4. \A k \in Keys : entry'[k] # NoEntry => entry[k] # NoEntry \/ Registering(Stored(c), k[2])
    BY <2>1, <2>2 DEF Registering, TypeInv, TypeOK
  <2>5. ~Registering(req[c], req[c].page)
    BY <1>2 DEF Registering
  <2>. QED
    BY <2>1, <2>3, <2>4, <2>5, RegStep
<1>. QED
  BY <1>3, <1>4

\* The tags that are not in path:{page}:tags yet are the inputs; the others are
\* in both indexes.  When the read fails, every tag is an input.
LEMMA RegChoose ==
  ASSUME TypeInv, IndexInv, StaleInv, RegInv, [Next]_vars, NEW c \in Calls, At(c, "readStored"),
         ReadStored(c) \/ Fail(c)
  PROVE  RegInv'
<1>. DEFINE p == req[c].page
<1>1. PICK tags \in {TagsOf[p] \ pathTags[p], TagsOf[p]} : Register(c, tags)
  BY DEF ReadStored, Fail, At
<1>2. UNCHANGED <<entry, tagPaths, pathTags>>
  BY DEF ReadStored, Fail, At, redis
<1>3. req[c].now = 0 /\ p \in Pages /\ TagsOf[p] \in SUBSET Tags
  BY TagsOfAssumption DEF StaleInv, Asks, At, TypeInv, TypeOK, Request
<1>4. \A t \in TagsOf[p] \ tags : p \in tagPaths'[t] /\ t \in pathTags'[p]
  BY <1>1, <1>2, <1>3 DEF IndexInv, IndexSound
<1>5. CASE tags = {}
  <2>1. Become(c, Idle)
    BY <1>1, <1>5 DEF Register
  <2>2. Idle.pc = "idle"
    BY DEF Idle
  <2>3. Registers(tagPaths', pathTags', Idle) /\ Indexed(tagPaths', pathTags', p)
    BY <1>4, <1>5, <2>2 DEF Registers, Indexed
  <2>. QED
    BY <1>2, <2>1, <2>3, RegStep
<1>6. CASE tags # {}
  <2>. DEFINE r == [req[c] EXCEPT !.pc = "addPath",
                                  !.todo = {[tag |-> t, page |-> req[c].page] : t \in tags}]
  <2>1. Become(c, r)
    BY <1>1, <1>6 DEF Register
  <2>2. r.pc = "addPath" /\ r.now = 0 /\ r.page = p /\ r.todo = {[tag |-> t, page |-> p] : t \in tags}
    BY <1>3, <1>6, WriterRecords DEF TypeInv, Moved
  <2>. HIDE DEF r
  <2>3. Registers(tagPaths', pathTags', r)
    BY <1>4, <2>2 DEF Registers
  <2>4. Registering(r, p)
    BY <2>2 DEF Registering
  <2>. QED
    BY <1>2, <2>1, <2>3, <2>4, RegStep
<1>. QED
  BY <1>5, <1>6

\* SADD tag:{tag}: the input is in hand until its second SADD.
LEMMA RegTake ==
  ASSUME TypeInv, RegInv, [Next]_vars, NEW c \in Calls, AddPath(c)
  PROVE  RegInv'
<1>1. PICK i \in req[c].todo :
        Become(c, [req[c] EXCEPT !.pc = "addTag", !.item = i, !.todo = @ \ {i}])
  BY DEF AddPath
<1>. DEFINE r == [req[c] EXCEPT !.pc = "addTag", !.item = i, !.todo = @ \ {i}]
<1>2. /\ r.pc = "addTag" /\ r.todo = req[c].todo \ {i} /\ r.item = i
      /\ r.page = req[c].page /\ r.now = req[c].now
  BY TakenRecord DEF TypeInv, Moved
<1>3. UNCHANGED entry /\ req[c].pc = "addPath" /\ Become(c, r)
  BY <1>1 DEF AddPath, At
<1>4. Registers(tagPaths, pathTags, req[c]) /\ req[c].page \in Pages
  BY DEF RegInv, TypeInv, TypeOK, Request
<1>5. /\ \A t \in Tags : tagPaths[t] \subseteq tagPaths'[t]
      /\ \A p \in Pages : pathTags[p] \subseteq pathTags'[p] /\ TagsOf[p] \in SUBSET Tags
  BY IndexesGrow, TagsOfAssumption DEF TypeInv
<1>. HIDE DEF r
<1>6. Registers(tagPaths', pathTags', r)
  BY <1>2, <1>3, <1>4, <1>5 DEF Registers
<1>7. Registering(req[c], req[c].page) => Registering(r, req[c].page)
  BY <1>2 DEF Registering
<1>. QED
  BY <1>3, <1>6, <1>7, RegStep

\* SADD path:{page}:tags: the tag is now in both indexes, and so are all when it
\* was the last.
LEMMA RegAdd ==
  ASSUME TypeInv, IndexInv, RegInv, [Next]_vars, NEW c \in Calls, AddTag(c)
  PROVE  RegInv'
<1>. DEFINE i == req[c].item  p == req[c].page
<1>1. /\ Become(c, AfterAddTag(c)) /\ req[c].pc = "addTag" /\ UNCHANGED <<entry, tagPaths>>
      /\ pathTags' = [pathTags EXCEPT ![i.page] = @ \cup {i.tag}]
  BY DEF AddTag, At
<1>2. i.page \in tagPaths'[i.tag] /\ i.page \in Pages /\ p \in Pages /\ TagsOf[p] \in SUBSET Tags
  BY <1>1, TagsOfAssumption DEF IndexInv, At, TypeInv, TypeOK, Request, Inputs
<1>3. i.tag \in pathTags'[i.page] /\ pathTags[p] \subseteq pathTags'[p]
  BY <1>1, <1>2 DEF TypeInv, TypeOK
<1>4. CASE req[c].now # 0
  <2>1. AfterAddTag(c).pc = "setStamp"
    BY <1>4, WriterRecords DEF TypeInv, Moved
  <2>. QED
    BY <1>1, <1>4, <2>1, RegAway
<1>5. CASE req[c].now = 0
  <2>1. Become(c, NextInput(c))
    BY <1>1, <1>5, WriterRecords DEF TypeInv
  <2>2. ASSUME NEW t \in TagsOf[p], [tag |-> t, page |-> p] \notin req[c].todo
        PROVE  p \in tagPaths'[t] /\ t \in pathTags'[p]
    <3>1. (p \in tagPaths[t] /\ t \in pathTags[p]) \/ i = [tag |-> t, page |-> p]
      BY <1>1, <1>5, <2>2 DEF RegInv, Registers
    <3>2. CASE p \in tagPaths[t] /\ t \in pathTags[p]
      BY <1>1, <1>3, <3>2
    <3>3. CASE i = [tag |-> t, page |-> p]
      <4>1. i.tag = t /\ i.page = p
        BY <3>3
      <4>. QED
        BY <1>2, <1>3, <4>1
    <3>. QED
      BY <3>1, <3>2, <3>3
  <2>3. CASE req[c].todo = {}
    <3>1. NextInput(c) = Idle /\ Idle.pc = "idle"
      BY <2>3, WriterRecords DEF TypeInv, Idle
    <3>2. Registers(tagPaths', pathTags', NextInput(c)) /\ Indexed(tagPaths', pathTags', p)
      BY <2>2, <2>3, <3>1 DEF Registers, Indexed
    <3>. QED
      BY <1>1, <2>1, <3>2, RegStep
  <2>4. CASE req[c].todo # {}
    <3>1. /\ NextInput(c).pc = "addPath" /\ NextInput(c).todo = req[c].todo
          /\ NextInput(c).now = 0 /\ NextInput(c).page = p
      BY <1>5, <2>4, WriterRecords DEF TypeInv, Moved
    <3>2. Registers(tagPaths', pathTags', NextInput(c)) /\ Registering(NextInput(c), p)
      BY <2>2, <3>1 DEF Registers, Registering
    <3>. QED
      BY <1>1, <2>1, <3>2, RegStep
  <2>. QED
    BY <2>3, <2>4
<1>. QED
  BY <1>4, <1>5

\* A revalidation registers pages that are registered already.
LEMMA RegRevalidate ==
  ASSUME TypeInv, StaleInv, RegInv, [Next]_vars, NEW c \in Calls,
         \/ SetStamp(c) \/ ReadPaths(c)
         \/ Fail(c) /\ req[c].pc \in {"readPaths", "setStamp"}
         \/ \E t \in Tags : StartRevalidation(c, t)
  PROVE  RegInv'
<1>1. UNCHANGED entry
  BY DEF SetStamp, ReadPaths, Fail, StartRevalidation, redis
<1>2. CASE req[c].pc \in {"readPaths", "setStamp"}
  <2>1. req[c].now # 0
    BY <1>2 DEF StaleInv, Asks
  <2>2. Idle.pc = "idle" /\ TypeOK
    BY DEF Idle, TypeInv
  <2>3. PICK r \in {NextInput(c), Found(c, tagPaths[req[c].tag])} : Become(c, r)
    BY <1>2 DEF SetStamp, ReadPaths, Fail, FailRevalidation, StartRevalidation, At
  <2>4. r.pc = "idle" \/ r.now # 0
    <3>1. CASE r = NextInput(c)
      BY <2>1, <2>2, <3>1, WriterRecords DEF Moved
    <3>2. CASE r = Found(c, tagPaths[req[c].tag])
      <4>1. CASE tagPaths[req[c].tag] = {}
        BY <2>2, <3>2, <4>1 DEF Found
      <4>2. CASE tagPaths[req[c].tag] # {}
        BY <2>1, <2>2, <3>2, <4>2, WriterRecords DEF Moved
      <4>. QED
        BY <4>1, <4>2
    <3>. QED
      BY <2>3, <3>1, <3>2
  <2>. QED
    BY <1>1, <1>2, <2>3, <2>4, RegAway
<1>3. ASSUME NEW t \in Tags, StartRevalidation(c, t)
      PROVE  RegInv'
  <2>. DEFINE r == [Idle EXCEPT !.pc = "readPaths", !.tag = t, !.now = clock,
                                !.round = asked[t] + 1]
  <2>1. Become(c, r) /\ req[c].pc = "idle"
    BY <1>3 DEF StartRevalidation, At
  <2>2. r.pc = "readPaths"
    BY DEF Idle
  <2>. HIDE DEF r
  <2>. QED
    BY <1>1, <2>1, <2>2, RegAway
<1>. QED
  BY <1>2, <1>3 DEF SetStamp, ReadPaths, At

\* Every step keeps the invariant.
LEMMA RegNext ==
  ASSUME SaddsArrive, TypeInv, IndexInv, StaleInv, RegInv, [Next]_vars
  PROVE  RegInv'
<1>1. CASE UNCHANGED vars \/ Tick
  <2>1. UNCHANGED <<entry, tagPaths, pathTags, req>>
    BY <1>1 DEF vars, Tick, redis
  <2>. QED
    BY <2>1 DEF RegInv
<1>2. ASSUME NEW k \in Keys, Expire(k)
      PROVE  RegInv'
  <2>1. /\ UNCHANGED <<tagPaths, pathTags, req>>
        /\ \A j \in Keys : entry'[j] # NoEntry => entry[j] # NoEntry
    BY <1>2 DEF Expire, TypeInv, TypeOK
  <2>. QED
    BY <2>1 DEF RegInv
<1>3. ASSUME NEW c \in Calls, Step(c) \/ Die(c) \/ \E p \in Pages : StartRequest(c, p)
      PROVE  RegInv'
  BY <1>3, RegLookup, RegChoose, RegTake, RegAdd, RegRevalidate DEF Step, ReadStored
<1>4. ASSUME NEW c \in Calls, Fail(c)
      PROVE  RegInv'
  BY <1>4, RegLookup, RegChoose, RegRevalidate DEF Fail, At, SaddsArrive
<1>5. ASSUME NEW c \in Calls, NEW t \in Tags, StartRevalidation(c, t)
      PROVE  RegInv'
  BY <1>5, RegRevalidate
<1>. QED
  BY <1>1, <1>2, <1>3, <1>4, <1>5 DEF Next

\* Unless a call is still at it, every cached page is registered under every tag
\* it carries, in the index that revalidateTag asks and in the one that readers
\* ask, whichever other commands fail and wherever else calls die.
THEOREM CachedPagesAreRegistered ==
  ASSUME SaddsArrive
  PROVE  Spec => []CachedIsRegistered
<1>1. RegInv => CachedIsRegistered
  <2> SUFFICES ASSUME RegInv, NEW k \in Keys, entry[k] # NoEntry
               PROVE  \/ \A t \in TagsOf[k[2]] : k[2] \in tagPaths[t] /\ t \in pathTags[k[2]]
                      \/ \E c \in Calls : /\ req[c].page = k[2]
                                          /\ req[c].pc \in {"readStored", "addPath", "addTag"}
    BY DEF CachedIsRegistered
  <2>. QED
    BY DEF RegInv, Indexed, Registering
<1>2. TypeInv /\ IndexInv /\ [Next]_vars => IndexInv'
  BY IndexNext DEF SaddsArrive
<1>3. TypeInv /\ TypeInv' /\ StaleInv /\ [Next]_vars => StaleInv'
  BY StaleNext
<1>4. TypeInv /\ IndexInv /\ StaleInv /\ RegInv /\ [Next]_vars => RegInv'
  BY RegNext
<1>. QED
  BY <1>1, <1>2, <1>3, <1>4, IndexInit, StaleInit, RegInit, TypeInvariance, PTL DEF Spec
=============================================================================
