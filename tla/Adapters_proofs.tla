--------------------------- MODULE Adapters_proofs ---------------------------
(***************************************************************************)
(* Proofs about the parts of a pod in kn-next/src/adapters that are        *)
(* modelled on their own: the Kafka producer, the GCS cache, the metrics   *)
(* of the bytecode cache, the node server and the log of cache events, for *)
(* any number of calls, requests, chunks, saves, files and events.         *)
(***************************************************************************)
EXTENDS KafkaQueue, GcsCache, BytecodeMetrics, NodeServer, CacheEvents, TLAPS

----------------------------------------------------------------------------
(* KafkaQueue *)

\* The one producer is that of the call that made it, in whatever state its
\* connection is, and only that call awaits the connection.
ProducersOwn ==
    /\ \A s \in Sends : link[s] # "none" => producer = s
    /\ \A s \in Sends : sending[s] = "connect" => producer = s

QueueInv == QueueTypeOK /\ ProducersOwn

LEMMA QueueInvInit == QueueInit => QueueInv
  BY ProducerAssumption DEF QueueInit, QueueInv, QueueTypeOK, ProducersOwn, Links, SendStages

LEMMA QueueInvNext == QueueInv /\ [QueueNext]_queueVars => QueueInv'
<1> SUFFICES ASSUME QueueInv, [QueueNext]_queueVars PROVE QueueInv'
  OBVIOUS
<1> USE ProducerAssumption
        DEF QueueInv, QueueTypeOK, ProducersOwn, Links, SendStages, Await
<1>1. CASE UNCHANGED queueVars
  BY <1>1 DEF queueVars
<1>2. ASSUME NEW s \in Sends, Send(s) PROVE QueueInv'
  <2>1. CASE producer = NoProducer
    BY <1>2, <2>1 DEF Send, Kept
  <2>2. CASE producer # NoProducer
    BY <1>2, <2>2 DEF Send
  <2> QED BY <2>1, <2>2
<1>3. ASSUME NEW s \in Sends, Connected(s) PROVE QueueInv'
  BY <1>3 DEF Connected
<1>4. ASSUME NEW s \in Sends, ConnectFails(s) PROVE QueueInv'
  BY <1>4 DEF ConnectFails
<1>5. ASSUME NEW s \in Sends, SendReturns(s) PROVE QueueInv'
  BY <1>5 DEF SendReturns
<1>6. ASSUME NEW s \in Sends, SendFails(s) PROVE QueueInv'
  BY <1>6 DEF SendFails
<1> QED BY <1>1, <1>2, <1>3, <1>4, <1>5, <1>6 DEF QueueNext

LEMMA QueueInvariant == QueueSpec => []QueueInv
  BY QueueInvInit, QueueInvNext, PTL DEF QueueSpec

\* The process holds one connection to Kafka, however many first sends meet
\* while it is being made (kafka-queue.ts, getProducer).
THEOREM ProducerIsOne == QueueSpec => []OneConnection
<1>1. QueueInv => OneConnection
  BY DEF QueueInv, QueueTypeOK, ProducersOwn, OneConnection
<1> QED BY <1>1, QueueInvariant, PTL

----------------------------------------------------------------------------
(* GcsCache *)

\* Between its two last requests a call holds the date of an object that was
\* there: what is there now, or is saved later, is not older.  Or the object had
\* no date, and the call holds the time of the day.
DatesAscend ==
    \A g \in Gets :
        /\ get[g].at = "download" =>
             \/ get[g].updated = Now
             \/ /\ get[g].updated \in 1..saves
                /\ object = NoObject \/ get[g].updated <= object
        /\ get[g].at = "hit" =>
             \/ get[g].updated = Now
             \/ /\ get[g].updated \in 1..saves
                /\ get[g].content \in 1..saves
                /\ get[g].updated <= get[g].content

GcsInv ==
    /\ GcsTypeOK
    /\ object # NoObject => object \in 1..saves
    /\ DatesAscend

LEMMA GcsInvInit == GcsInit => GcsInv
  BY SavesAssumption DEF GcsInit, GcsInv, GcsTypeOK, GetCall, Generations, DatesAscend

\* A call's step changes nothing but the call.
LEMMA GcsAsks ==
  ASSUME GcsInv, NEW g \in Gets, NEW x \in GetCall,
         get' = [get EXCEPT ![g] = x], UNCHANGED <<object, saves>>,
         x.at = "download" =>
           \/ x.updated = Now
           \/ x.updated \in 1..saves /\ (object = NoObject \/ x.updated <= object),
         x.at = "hit" =>
           \/ x.updated = Now
           \/ x.updated \in 1..saves /\ x.content \in 1..saves /\ x.updated <= x.content
  PROVE  GcsInv'
  BY DEF GcsInv, GcsTypeOK, DatesAscend

LEMMA GcsInvNext == GcsInv /\ [GcsNext]_gcsVars => GcsInv'
<1> SUFFICES ASSUME GcsInv, [GcsNext]_gcsVars PROVE GcsInv'
  OBVIOUS
<1> USE SavesAssumption
<1>1. CASE UNCHANGED gcsVars
  BY <1>1 DEF gcsVars, GcsInv, GcsTypeOK, DatesAscend
<1>2. CASE Save
  BY <1>2 DEF Save, GcsInv, GcsTypeOK, DatesAscend, GetCall, Generations
<1>3. CASE Delete
  BY <1>3 DEF Delete, GcsInv, GcsTypeOK, DatesAscend, GetCall, Generations
<1>4. ASSUME NEW g \in Gets, StartGet(g) \/ Exists(g) \/ Metadata(g) \/ Download(g) \/ GetFails(g)
      PROVE  GcsInv'
  <2> DEFINE c == get[g]
  <2>0. c \in GetCall
    BY DEF GcsInv, GcsTypeOK
  <2>1. CASE StartGet(g)
    <3> DEFINE x == [c EXCEPT !.at = "exists"]
    <3>1. x \in GetCall /\ x.at = "exists"
      BY <2>0 DEF GetCall
    <3> QED BY <2>1, <3>1, GcsAsks DEF StartGet, Asks
  <2>2. CASE Exists(g)
    <3> DEFINE x == [c EXCEPT !.at = IF object = NoObject THEN "miss" ELSE "metadata"]
    <3>1. x \in GetCall /\ x.at \in {"miss", "metadata"}
      BY <2>0 DEF GetCall
    <3> QED BY <2>2, <3>1, GcsAsks DEF Exists, Asks
  <2>3. CASE Metadata(g)
    <3>1. PICK d \in {object, Now} :
            /\ get' = [get EXCEPT ![g] =
                 [c EXCEPT !.at = IF object = NoObject THEN "miss" ELSE "download", !["updated"] = d]]
            /\ UNCHANGED <<object, saves>>
      BY <2>3 DEF Metadata, Reads, Values, ReadInOrder, Asks
    <3> DEFINE x == [c EXCEPT !.at = IF object = NoObject THEN "miss" ELSE "download",
                              !["updated"] = d]
    <3>2. x \in GetCall /\ x.updated = d
          /\ x.at = IF object = NoObject THEN "miss" ELSE "download"
      BY <2>0 DEF GetCall, GcsInv, GcsTypeOK
    <3>3. object # NoObject => object \in 1..saves /\ object <= object
      BY DEF GcsInv
    <3>4. x.at = "download" =>
            \/ x.updated = Now
            \/ x.updated \in 1..saves /\ (object = NoObject \/ x.updated <= object)
      BY <3>2, <3>3
    <3>5. x.at # "hit"
      BY <3>2
    <3> HIDE DEF x
    <3> QED BY <3>1, <3>2, <3>4, <3>5, GcsAsks DEF x
  <2>4. CASE Download(g)
    <3> DEFINE x == [c EXCEPT !.at = IF object = NoObject THEN "miss" ELSE "hit",
                              !.content = object]
    <3>1. x \in GetCall /\ x.content = object /\ x.updated = c.updated
          /\ x.at = IF object = NoObject THEN "miss" ELSE "hit"
      BY <2>0 DEF GetCall, GcsInv, GcsTypeOK
    <3>2. get' = [get EXCEPT ![g] = x] /\ UNCHANGED <<object, saves>> /\ c.at = "download"
      BY <2>4, <2>0 DEF Download, Reads, Values, ReadInOrder, Asks, GetCall
    <3>3. /\ object # NoObject => object \in 1..saves
          /\ \/ c.updated = Now
             \/ c.updated \in 1..saves /\ (object = NoObject \/ c.updated <= object)
      BY <3>2 DEF GcsInv, DatesAscend
    <3>4. x.at = "hit" =>
            \/ x.updated = Now
            \/ x.updated \in 1..saves /\ x.content \in 1..saves /\ x.updated <= x.content
      BY <3>1, <3>3
    <3>5. x.at # "download"
      BY <3>1
    <3>6. x \in GetCall
      BY <3>1
    <3> HIDE DEF x
    <3> QED BY <3>2, <3>4, <3>5, <3>6, GcsAsks
  <2>5. CASE GetFails(g)
    <3> DEFINE x == [c EXCEPT !.at = "miss"]
    <3>1. x \in GetCall /\ x.at = "miss"
      BY <2>0 DEF GetCall
    <3> QED BY <2>5, <3>1, GcsAsks DEF GetFails, Asks
  <2> QED BY <1>4, <2>1, <2>2, <2>3, <2>4, <2>5
<1> QED BY <1>1, <1>2, <1>3, <1>4 DEF GcsNext

\* A hit of the GCS cache is never dated after the content it returns: the date
\* is asked for before the content (gcs-cache.ts, get).  The exception is a hit
\* whose metadata has no date, which is dated when it is read.
THEOREM HitsAreNotTooLate == GcsSpec => []DateNotTooLate
<1>1. GcsInv => DateNotTooLate
  BY DEF GcsInv, DatesAscend, DateNotTooLate
<1> QED BY <1>1, GcsInvInit, GcsInvNext, PTL DEF GcsSpec

----------------------------------------------------------------------------
(* BytecodeMetrics *)

\* The counter is lastCount, the largest count seen, and no count was larger
\* than the number of files the pod found and of those written since.
MetricsInv ==
    /\ files \in Nat /\ found \in Nat /\ written \in Nat /\ files <= found + written
    /\ wrapper \in [polling : BOOLEAN, total : Nat, warm : BOOLEAN, lastCount : Nat, writes : Nat]
    /\ wrapper.writes = wrapper.lastCount /\ wrapper.lastCount <= found + written

LEMMA MetricsInvInit == MetricsInit => MetricsInv
  BY FilesAssumption DEF MetricsInit, MetricsInv, Unset

LEMMA MetricsInvNext == MetricsInv /\ [MetricsNext]_metricsVars => MetricsInv'
<1> SUFFICES ASSUME MetricsInv, [MetricsNext]_metricsVars PROVE MetricsInv'
  OBVIOUS
<1> USE DEF MetricsInv
<1>1. CASE UNCHANGED metricsVars
  BY <1>1 DEF metricsVars
<1>2. CASE InitMetrics
  BY <1>2 DEF InitMetrics, Scans
<1>3. CASE Poll
  <2>1. PICK n \in Scans : wrapper' = Polled(wrapper, n)
    BY <1>3 DEF Poll
  <2>2. n \in Nat /\ n <= found + written
    BY DEF Scans
  <2>3. UNCHANGED <<files, found, written>>
    BY <1>3 DEF Poll
  <2>4. CASE n > wrapper.lastCount
    <3>1. wrapper' = [wrapper EXCEPT !.writes = wrapper.writes + (n - wrapper.lastCount),
                                     !.lastCount = n, !.total = n]
      BY <2>1, <2>4 DEF Polled
    <3>2. wrapper.writes + (n - wrapper.lastCount) = n
      BY <2>2
    <3>3. wrapper' = [wrapper EXCEPT !.writes = n, !.lastCount = n, !.total = n]
      BY <3>1, <3>2
    <3>4. /\ wrapper' \in [polling : BOOLEAN, total : Nat, warm : BOOLEAN, lastCount : Nat, writes : Nat]
          /\ wrapper'.writes = n /\ wrapper'.lastCount = n
      BY <2>2, <3>3
    <3> QED BY <2>2, <2>3, <3>4
  <2>5. CASE ~(n > wrapper.lastCount)
    BY <2>1, <2>3, <2>5 DEF Polled
  <2> QED BY <2>4, <2>5
<1>4. CASE RecordStartup
  BY <1>4 DEF RecordStartup
<1>5. CASE Scrape
  BY <1>5 DEF Scrape
<1>6. CASE WriteFile
  BY <1>6 DEF WriteFile
<1>7. CASE RemoveFile
  BY <1>7 DEF RemoveFile
<1> QED BY <1>1, <1>2, <1>3, <1>4, <1>5, <1>6, <1>7 DEF MetricsNext

\* bytecode_cache_writes_total never exceeds the number of files that the pod
\* found when it started and of those written since, whatever the pods write and
\* remove between polls (bytecode-metrics.ts).
THEOREM FilesAreCountedOnce == MetricsSpec => []NoFileCountedTwice
<1>1. MetricsInv => NoFileCountedTwice
  BY DEF MetricsInv, NoFileCountedTwice
<1> QED BY <1>1, MetricsInvInit, MetricsInvNext, PTL DEF MetricsSpec

----------------------------------------------------------------------------
(* NodeServer *)

\* A response is ended only when its listener is over, one whose body has not
\* begun has nothing left, and the chunks written and left are those of the body.
Orderly(x) ==
    /\ x.at # "over" => ~x.ended
    /\ x.at # "over" => x.left + x.sent <= MaxChunks
    /\ x.at \in {"none", "handler"} => x.left = 0 /\ x.sent = 0
    /\ x.at = "over" /\ x.ended /\ x.ok /\ ~x.spoiled => x.left = 0

ServerInv == ServerTypeOK /\ \A r \in Requests : Orderly(resp[r])

LEMMA NoResponseIsOrderly == NoResponse \in Response /\ Orderly(NoResponse)
  BY ChunksAssumption DEF NoResponse, Response, Orderly

LEMMA ServerInvInit == ServerInit => ServerInv
  BY NoResponseIsOrderly DEF ServerInit, ServerInv, ServerTypeOK

\* A listener's step changes nothing but its response.
LEMMA ServerGoes ==
  ASSUME ServerInv, NEW r \in Requests, NEW x \in Response, Orderly(x),
         resp' = [resp EXCEPT ![r] = x],
         server' \in {"up", "closing", "exited", "crashed"}
  PROVE  ServerInv'
  BY DEF ServerInv, ServerTypeOK

\* The catch block ends the response with status 500, or spoils it.
LEMMA CaughtIsOrderly ==
  ASSUME NEW x \in Response
  PROVE  Caught(x) \in Response /\ Orderly(Caught(x))
<1> DEFINE b == x.sent > 0
<1> DEFINE y == [x EXCEPT !.ok = b, !.spoiled = b, !.at = "over", !.ended = x.client]
<1>1. Caught(x) = y
  BY DEF Caught, Ended, Response
<1>2. b \in BOOLEAN
  OBVIOUS
<1> HIDE DEF b
<1>3. y \in Response /\ y.ok = b /\ y.spoiled = b /\ y.at = "over"
  BY <1>2 DEF Response
<1> HIDE DEF y
<1>4. Orderly(y)
  BY <1>3 DEF Orderly
<1> QED BY <1>1, <1>3, <1>4

\* res.end() after the last chunk.
LEMMA EndedIsOrderly ==
  ASSUME NEW x \in Response, x.left = 0
  PROVE  Ended(x) \in Response /\ Orderly(Ended(x))
  BY DEF Ended, Response, Orderly

LEMMA ListenerKeepsInv ==
  ASSUME ServerInv, NEW r \in Requests, Listener(r)
  PROVE  ServerInv'
<1> DEFINE x == resp[r]
<1>0. /\ x \in Response /\ Orderly(x)
      /\ server \in {"up", "closing", "exited", "crashed"}
  BY DEF ServerInv, ServerTypeOK
<1>1. CASE Respond(r)
  <2>1. PICK body \in Bodies, n \in 0..MaxChunks : Goes(r, "handler", Begun(x, body, n))
    BY <1>1 DEF Respond
  <2>2. x.at = "handler" /\ resp' = [resp EXCEPT ![r] = Begun(x, body, n)] /\ server' = server
    BY <2>1 DEF Goes
  <2>3. Begun(x, body, n) \in Response /\ Orderly(Begun(x, body, n))
    <3>0. x.left = 0 /\ x.sent = 0 /\ ~x.ended
      BY <1>0, <2>2 DEF Orderly
    <3>1. CASE body = "none"
      BY <3>0, <3>1, <1>0, EndedIsOrderly DEF Begun
    <3>2. CASE body = "whole"
      <4>1. [x EXCEPT !.sent = n] \in Response /\ [x EXCEPT !.sent = n].left = 0
        BY <1>0, <3>0 DEF Response
      <4> QED BY <3>2, <4>1, EndedIsOrderly DEF Begun
    <3>3. CASE body = "web"
      <4> DEFINE y == [x EXCEPT !.at = "read", !.left = n]
      <4>1. Begun(x, body, n) = y
        BY <3>3 DEF Begun
      <4>2. y \in Response /\ y.at = "read" /\ y.left = n /\ y.sent = x.sent /\ y.ended = x.ended
        BY <1>0 DEF Response
      <4> HIDE DEF y, x
      <4>3. Orderly(y)
        BY <3>0, <4>2 DEF Orderly
      <4> QED BY <4>1, <4>2, <4>3
    <3>4. CASE body = "node"
      <4> DEFINE y == [x EXCEPT !.at = "pipe", !.left = n]
      <4>1. Begun(x, body, n) = y
        BY <3>4 DEF Begun
      <4>2. y \in Response /\ y.at = "pipe" /\ y.left = n /\ y.sent = x.sent /\ y.ended = x.ended
        BY <1>0 DEF Response
      <4> HIDE DEF y, x
      <4>3. Orderly(y)
        BY <3>0, <4>2 DEF Orderly
      <4> QED BY <4>1, <4>2, <4>3
    <3> QED BY <3>1, <3>2, <3>3, <3>4 DEF Bodies
  <2> HIDE DEF x
  <2> QED BY <1>0, <2>2, <2>3, ServerGoes
<1>2. CASE Throw(r)
  BY <1>0, <1>2, CaughtIsOrderly, ServerGoes DEF Throw, Goes
<1>3. CASE EndBody(r)
  BY <1>0, <1>3, EndedIsOrderly, ServerGoes DEF EndBody, Goes
<1>4. CASE Write(r)
  <2>1. PICK ok \in BOOLEAN :
          /\ x.left > 0
          /\ Goes(r, "read", [x EXCEPT !.left = @ - 1,
                                       !.sent = IF x.client THEN @ + 1 ELSE @,
                                       !.at = IF ok THEN "read" ELSE "drain"])
    BY <1>4 DEF Write
  <2> DEFINE y == [x EXCEPT !.left = @ - 1,
                            !.sent = IF x.client THEN @ + 1 ELSE @,
                            !.at = IF ok THEN "read" ELSE "drain"]
  <2>2. x.at = "read" /\ resp' = [resp EXCEPT ![r] = y] /\ server' = server
    BY <2>1 DEF Goes
  <2>3. /\ x.left \in 0..MaxChunks /\ x.sent \in 0..MaxChunks /\ x.left + x.sent <= MaxChunks
        /\ ~x.ended
    BY <1>0, <2>2 DEF Response, Orderly
  <2>4. /\ y \in Response /\ y.at \in {"read", "drain"} /\ y.left = x.left - 1
        /\ y.sent \in {x.sent, x.sent + 1} /\ y.ended = x.ended
    <3>1. x.left - 1 \in 0..MaxChunks /\ x.sent + 1 \in 0..MaxChunks
      BY <2>1, <2>3, ChunksAssumption
    <3> DEFINE sent == IF x.client THEN x.sent + 1 ELSE x.sent
               at == IF ok THEN "read" ELSE "drain"
    <3>2. sent \in {x.sent, x.sent + 1} /\ at \in {"read", "drain"}
      OBVIOUS
    <3>3. sent \in 0..MaxChunks
      BY <2>3, <3>1, <3>2
    <3> HIDE DEF sent, at
    <3>4. [x EXCEPT !.left = x.left - 1, !.sent = sent, !.at = at] \in Response
      BY <1>0, <3>1, <3>2, <3>3 DEF Response
    <3>5. y = [x EXCEPT !.left = x.left - 1, !.sent = sent, !.at = at]
      BY DEF sent, at
    <3> HIDE DEF y, x
    <3> QED BY <1>0, <3>2, <3>4, <3>5 DEF Response
  <2> HIDE DEF x, y
  <2>5. Orderly(y)
    BY <2>3, <2>4, ChunksAssumption DEF Orderly
  <2> QED BY <1>0, <2>2, <2>4, <2>5, ServerGoes
<1>5. CASE ReadFails(r)
  <2>1. CASE x.resumed
    BY <1>5, <2>1 DEF ReadFails, ServerInv, ServerTypeOK
  <2>2. CASE ~x.resumed
    BY <1>0, <1>5, <2>2, CaughtIsOrderly, ServerGoes DEF ReadFails, Goes
  <2> QED BY <2>1, <2>2
<1>6. CASE Drain(r)
  <2>1. Drained(x) \in Response /\ Orderly(Drained(x))
    BY <1>0, <1>6 DEF Drain, Goes, Drained, Response, Orderly
  <2> QED BY <1>0, <1>6, <2>1, ServerGoes DEF Drain, Goes
<1>7. CASE Pipe(r)
  <2> DEFINE y == [x EXCEPT !.left = @ - 1, !.sent = @ + 1]
  <2>1. x.at = "pipe" /\ server' = server
        /\ resp' = [resp EXCEPT ![r] = IF x.left = 0 \/ ~x.client THEN Ended(x) ELSE y]
    BY <1>7 DEF Pipe, Goes
  <2>2. CASE x.left = 0
    BY <1>0, <2>1, <2>2, EndedIsOrderly, ServerGoes
  <2>3. CASE x.left # 0 /\ ~x.client
    <3>1. Ended(x) \in Response /\ Orderly(Ended(x))
      BY <1>0, <2>3 DEF Ended, Response, Orderly
    <3> HIDE DEF x
    <3> QED BY <1>0, <2>1, <2>3, <3>1, ServerGoes
  <2>4. CASE x.left # 0 /\ x.client
    <3>1. /\ x.left \in 0..MaxChunks /\ x.sent \in 0..MaxChunks /\ x.left + x.sent <= MaxChunks
          /\ ~x.ended
      BY <1>0, <2>1 DEF Response, Orderly
    <3>2. /\ y \in Response /\ y.at = "pipe" /\ y.left = x.left - 1 /\ y.sent = x.sent + 1
          /\ y.ended = x.ended
      <4>1. x.left - 1 \in 0..MaxChunks /\ x.sent + 1 \in 0..MaxChunks
        BY <2>4, <3>1, ChunksAssumption
      <4>2. y \in Response
        BY <1>0, <4>1 DEF Response
      <4> QED BY <1>0, <2>1, <4>2 DEF Response
    <3> HIDE DEF x, y
    <3>3. Orderly(y)
      BY <3>1, <3>2, ChunksAssumption DEF Orderly
    <3> QED BY <1>0, <2>1, <2>4, <3>2, <3>3, ServerGoes
  <2> QED BY <2>2, <2>3, <2>4
<1>8. CASE PipeFails(r)
  BY <1>8 DEF PipeFails, ServerInv, ServerTypeOK
<1> QED BY <1>1, <1>2, <1>3, <1>4, <1>5, <1>6, <1>7, <1>8 DEF Listener

LEMMA ServerInvNext == ServerInv /\ [ServerNext]_serverVars => ServerInv'
<1> SUFFICES ASSUME ServerInv, [ServerNext]_serverVars PROVE ServerInv'
  OBVIOUS
<1>1. CASE UNCHANGED serverVars
  BY <1>1 DEF serverVars, ServerInv, ServerTypeOK
<1>2. ASSUME NEW r \in Requests, Accept(r) PROVE ServerInv'
  <2> DEFINE y == [NoResponse EXCEPT !.at = "handler", !.client = TRUE]
  <2>1. /\ y \in Response /\ y.at = "handler" /\ y.left = 0 /\ y.sent = 0
        /\ y.ended = FALSE
    <3>1. NoResponse \in Response
      BY NoResponseIsOrderly
    <3>2. NoResponse.left = 0 /\ NoResponse.sent = 0 /\ NoResponse.ended = FALSE
      BY DEF NoResponse
    <3>3. y \in Response
      BY <3>1 DEF Response
    <3> QED BY <3>1, <3>2, <3>3 DEF Response
  <2>2. resp' = [resp EXCEPT ![r] = y] /\ server' = "up"
    BY <1>2 DEF Accept, Goes
  <2> HIDE DEF y
  <2>3. Orderly(y)
    BY <2>1, ChunksAssumption DEF Orderly
  <2> QED BY <2>1, <2>2, <2>3, ServerGoes
<1>3. ASSUME NEW r \in Requests, Listener(r) PROVE ServerInv'
  BY <1>3, ListenerKeepsInv
<1>4. ASSUME NEW r \in Requests, Leave(r) PROVE ServerInv'
  <2> DEFINE y == [resp[r] EXCEPT !.client = FALSE]
  <2>1. resp[r] \in Response /\ Orderly(resp[r])
    BY DEF ServerInv, ServerTypeOK
  <2>2. y \in Response /\ Orderly(y)
    BY <2>1 DEF Response, Orderly
  <2>3. resp' = [resp EXCEPT ![r] = y] /\ server' \in {"up", "closing"}
    BY <1>4, <2>1 DEF Leave, Running, ServerInv, ServerTypeOK
  <2> HIDE DEF y
  <2> QED BY <2>2, <2>3, ServerGoes
<1>5. CASE Shutdown
  BY <1>5 DEF Shutdown, ServerInv, ServerTypeOK
<1>6. CASE Exit
  BY <1>6 DEF Exit, ServerInv, ServerTypeOK
<1> QED BY <1>1, <1>2, <1>3, <1>4, <1>5, <1>6 DEF ServerNext

\* A response that is ended with its own status and without the text of an
\* error has its whole body, for bodies of any number of chunks and however
\* often their client keeps them waiting or leaves (node-server.ts, the pump).
THEOREM EndedResponsesAreWhole == ServerSpec => []EndedIsWhole
<1>1. ServerInv => EndedIsWhole
  BY DEF ServerInv, ServerTypeOK, Response, Orderly, EndedIsWhole
<1> QED BY <1>1, ServerInvInit, ServerInvNext, PTL DEF ServerSpec

----------------------------------------------------------------------------
(* CacheEvents *)

Event == [id : Nat, type : EventTypes]

\* The counter counts the events since the array was emptied, and the array
\* holds no more than those.
EventsInv ==
    /\ cacheEvents \in Seq(Event)
    /\ cacheEventCounter \in Nat /\ logged = cacheEventCounter
    /\ Len(cacheEvents) <= logged
    /\ NewestAreKept

\* What slice(0, n) leaves of an array.
LEMMA FirstIs ==
  ASSUME NEW S, NEW s \in Seq(S), NEW n \in Nat
  PROVE  /\ First(s, n) \in Seq(S)
         /\ Len(First(s, n)) = IF Len(s) < n THEN Len(s) ELSE n
         /\ \A i \in DOMAIN First(s, n) : i \in DOMAIN s /\ First(s, n)[i] = s[i]
<1> DEFINE m == IF Len(s) < n THEN Len(s) ELSE n
<1>1. m \in 0..Len(s)
  OBVIOUS
<1> HIDE DEF m
<1>2. /\ SubSeq(s, 1, m) \in Seq(S) /\ Len(SubSeq(s, 1, m)) = m
      /\ \A i \in 1..m : i \in DOMAIN s /\ SubSeq(s, 1, m)[i] = s[i]
  BY <1>1
<1>3. First(s, n) = SubSeq(s, 1, m)
  BY DEF First, m
<1>4. DOMAIN SubSeq(s, 1, m) = 1..m
  BY <1>1, <1>2
<1> QED BY <1>2, <1>3, <1>4 DEF m

\* The new event comes first and the others move on by one place.
LEMMA LoggedIs ==
  ASSUME NEW e \in Event, NEW n \in Nat \ {0}, cacheEvents \in Seq(Event)
  PROVE  /\ Logged(e, n) \in Seq(Event)
         /\ Len(Logged(e, n)) = IF Len(cacheEvents) + 1 < n THEN Len(cacheEvents) + 1 ELSE n
         /\ \A i \in DOMAIN Logged(e, n) :
              /\ i \in 1..Len(cacheEvents) + 1
              /\ Logged(e, n)[i] = IF i = 1 THEN e ELSE cacheEvents[i - 1]
<1> DEFINE s == <<e>> \o cacheEvents
<1>1. s \in Seq(Event) /\ Len(s) = Len(cacheEvents) + 1
  OBVIOUS
<1>2. \A i \in 1..Len(s) : s[i] = IF i = 1 THEN e ELSE cacheEvents[i - 1]
  OBVIOUS
<1>3. DOMAIN s = 1..Len(s)
  BY <1>1
<1> HIDE DEF s
<1>4. Logged(e, n) = First(s, n)
  BY DEF Logged, s
<1> QED BY <1>1, <1>2, <1>3, <1>4, FirstIs

LEMMA EventsInvInit == EventsInit => EventsInv
  BY EventBoundsAssumption DEF EventsInit, EventsInv, NewestAreKept

LEMMA LogKeepsInv ==
  ASSUME EventsInv, NEW type \in Types, NEW bound \in {SmallBound, LargeBound},
         LogCacheEvent(type, bound)
  PROVE  EventsInv'
<1> DEFINE e == [id |-> cacheEventCounter + 1, type |-> type]
           new == Logged(e, bound)
<1>1. /\ cacheEvents' = new /\ cacheEventCounter' = cacheEventCounter + 1
      /\ logged' = logged + 1
  BY DEF LogCacheEvent
<1>2. /\ SmallBound \in Nat /\ LargeBound \in Nat /\ bound \in Nat \ {0}
      /\ 0 < SmallBound /\ SmallBound <= bound /\ bound <= LargeBound
  BY EventBoundsAssumption
<1>3. /\ cacheEvents \in Seq(Event) /\ cacheEventCounter \in Nat /\ logged = cacheEventCounter
      /\ Len(cacheEvents) \in Nat /\ Len(cacheEvents) <= logged
      /\ Len(cacheEvents) >= IF logged < SmallBound THEN logged ELSE SmallBound
      /\ \A i \in 1..Len(cacheEvents) : cacheEvents[i].id = cacheEventCounter + 1 - i
  BY DEF EventsInv, NewestAreKept
<1>4. e \in Event /\ e.id = cacheEventCounter + 1
  BY <1>3, EventBoundsAssumption DEF Event
<1> HIDE DEF e
<1>5. /\ new \in Seq(Event)
      /\ Len(new) = IF Len(cacheEvents) + 1 < bound THEN Len(cacheEvents) + 1 ELSE bound
      /\ \A i \in DOMAIN new : /\ i \in 1..Len(cacheEvents) + 1
                               /\ new[i] = IF i = 1 THEN e ELSE cacheEvents[i - 1]
  BY <1>2, <1>3, <1>4, LoggedIs
<1> HIDE DEF new
<1>6. ASSUME NEW i \in DOMAIN new PROVE new[i].id = cacheEventCounter' + 1 - i
  <2>1. CASE i = 1
    BY <1>1, <1>3, <1>4, <1>5, <2>1
  <2>2. CASE i # 1
    <3>1. i - 1 \in 1..Len(cacheEvents) /\ new[i] = cacheEvents[i - 1]
      BY <1>3, <1>5, <2>2
    <3>2. cacheEvents[i - 1].id = cacheEventCounter + 1 - (i - 1)
      BY <1>3, <3>1
    <3>3. i \in Nat /\ cacheEventCounter \in Nat
          /\ cacheEventCounter' = cacheEventCounter + 1
      BY <1>1, <1>3, <1>5
    <3>4. cacheEventCounter + 1 - (i - 1) = cacheEventCounter' + 1 - i
      BY <3>3
    <3> QED BY <3>1, <3>2, <3>4
  <2> QED BY <2>1, <2>2
<1>7. /\ Len(new) <= logged'
      /\ Len(new) >= IF logged' < SmallBound THEN logged' ELSE SmallBound
      /\ Len(new) <= LargeBound
  BY <1>1, <1>2, <1>3, <1>5
<1> QED BY <1>1, <1>3, <1>5, <1>6, <1>7 DEF EventsInv, NewestAreKept

LEMMA EventsInvNext == EventsInv /\ [EventsNext]_eventVars => EventsInv'
<1> SUFFICES ASSUME EventsInv, [EventsNext]_eventVars PROVE EventsInv'
  OBVIOUS
<1>1. CASE UNCHANGED podVars
  BY <1>1 DEF podVars, EventsInv, NewestAreKept
<1>2. ASSUME NEW type \in Types, NEW bound \in {SmallBound, LargeBound}, LogCacheEvent(type, bound)
      PROVE  EventsInv'
  BY <1>2, LogKeepsInv
<1>3. CASE ClearCacheEvents
  BY <1>3, EventBoundsAssumption DEF ClearCacheEvents, EventsInv, NewestAreKept
<1>4. ASSUME NEW q \in Polls, SendPoll(q) \/ AnswerPoll(q) \/ ShowPoll(q) \/ PollFails(q)
      PROVE  UNCHANGED podVars
  BY <1>4 DEF SendPoll, AnswerPoll, ShowPoll, PollFails
<1>5. CASE ShowCleared
  BY <1>1, <1>5 DEF ShowCleared
<1> QED BY <1>1, <1>2, <1>3, <1>4, <1>5 DEF EventsNext, eventVars

\* The log of cache events holds the newest ones without a gap, no more than the
\* larger and, while there are as many, no fewer than the smaller of its two
\* loggers' bounds, however their events mix (cache-events.ts, cache-handler.js).
THEOREM NewestEventsAreKept == EventsSpec => []NewestAreKept
<1>1. EventsInv => NewestAreKept
  BY DEF EventsInv
<1> QED BY <1>1, EventsInvInit, EventsInvNext, PTL DEF EventsSpec
=============================================================================
