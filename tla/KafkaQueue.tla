----------------------------- MODULE KafkaQueue -----------------------------
(***************************************************************************)
(* The revalidation queue (kn-next/src/adapters/kafka-queue.ts): one lazy  *)
(* producer per process.  getProducer assigns the producer before it       *)
(* awaits connect(), so that a concurrent send gets it while it is still   *)
(* connecting, and a later one when connecting has failed.  What kafkajs   *)
(* does with a send on such a producer is kafkajs's: it returns or throws. *)
(***************************************************************************)

CONSTANTS
    Sends,        \* the calls of send
    NoProducer    \* the initial value of the producer

ASSUME ProducerAssumption == NoProducer \notin Sends

VARIABLES
    producer,    \* the module's producer, named after the call that made it
    link,        \* the connection of each producer made
    sending      \* where each call is

queueVars == <<producer, link, sending>>

Links == {"none", "connecting", "up", "failed"}
SendStages == {"none", "connect", "send", "sent", "failed"}

QueueInit ==
    /\ producer = NoProducer
    /\ link = [s \in Sends |-> "none"]
    /\ sending = [s \in Sends |-> "none"]

Await(s, stage) == sending' = [sending EXCEPT ![s] = stage]

\* Mutant of Kept: every send makes a producer of its own.
KeptByNobody(s) == UNCHANGED producer

\* getProducer: the producer is assigned before connect() is awaited.
Kept(s) == producer' = s

\* send begins: getProducer makes a producer, or returns the one there is.
Send(s) ==
    /\ sending[s] = "none"
    /\ IF producer = NoProducer
       THEN /\ Kept(s)
            /\ link' = [link EXCEPT ![s] = "connecting"]
            /\ Await(s, "connect")
       ELSE /\ Await(s, "send")
            /\ UNCHANGED <<producer, link>>

\* connect() returns.
Connected(s) ==
    /\ sending[s] = "connect"
    /\ link' = [link EXCEPT ![s] = "up"]
    /\ Await(s, "send")
    /\ UNCHANGED producer

\* connect() gives up after its retries: send rethrows, the producer stays.
ConnectFails(s) ==
    /\ sending[s] = "connect"
    /\ link' = [link EXCEPT ![s] = "failed"]
    /\ Await(s, "failed")
    /\ UNCHANGED producer

\* prod.send() returns, once the broker has acknowledged the message.
SendReturns(s) ==
    /\ sending[s] = "send"
    /\ Await(s, "sent")
    /\ UNCHANGED <<producer, link>>

\* prod.send() throws, and send rethrows.
SendFails(s) ==
    /\ sending[s] = "send"
    /\ Await(s, "failed")
    /\ UNCHANGED <<producer, link>>

QueueNext ==
    \E s \in Sends :
        \/ Send(s)
        \/ Connected(s) \/ ConnectFails(s)
        \/ SendReturns(s) \/ SendFails(s)

QueueSpec == QueueInit /\ [][QueueNext]_queueVars

----------------------------------------------------------------------------
QueueTypeOK ==
    /\ producer \in Sends \cup {NoProducer}
    /\ link \in [Sends -> Links]
    /\ sending \in [Sends -> SendStages]

\* However many first sends meet, the process holds one connection to Kafka,
\* that of the producer the module keeps and could disconnect.
OneConnection ==
    \A s \in Sends : link[s] \in {"connecting", "up"} => producer = s
=============================================================================
