----------------------------- MODULE NodeServer -----------------------------
(***************************************************************************)
(* The process of a pod as OpenNext's wrapper runs it                      *)
(* (kn-next/src/adapters/node-server.ts): an HTTP server whose listener    *)
(* awaits OpenNext's handler and then ends, pumps or pipes the body, and a *)
(* SIGTERM handler that closes the server and exits.                       *)
(*                                                                         *)
(* One action is what runs between two awaits.  Sockets, streams and the   *)
(* client are Node's and the network's: a chunk may be taken at once or    *)
(* fill the buffer, a source may fail, a client may leave at any time.     *)
(***************************************************************************)
EXTENDS Naturals

CONSTANTS
    Requests,    \* the requests that reach the pod
    MaxChunks    \* bound: the chunks of a streamed body

ASSUME ChunksAssumption == MaxChunks \in Nat

VARIABLES
    server,    \* "up", "closing", "exited" or "crashed"
    resp       \* the listener's state and the response, by request

serverVars == <<server, resp>>

\* What response.body may be; /metrics is answered like a string.
Bodies == {"none", "whole", "web", "node"}

\* at: where the listener is.  left: chunks the source has still to give.
\* piped: chunks the client has been sent.  resumed: pump runs from a drain.
\* ok: the status is not 500.  spoiled: an error text follows part of the body.
\* client: the connection is open.
Response == [at : {"none", "handler", "read", "drain", "pipe", "over"},
             left : 0..MaxChunks, sent : 0..MaxChunks, resumed : BOOLEAN,
             ok : BOOLEAN, ended : BOOLEAN, spoiled : BOOLEAN, client : BOOLEAN]

NoResponse == [at |-> "none", left |-> 0, sent |-> 0, resumed |-> FALSE,
               ok |-> TRUE, ended |-> FALSE, spoiled |-> FALSE, client |-> FALSE]

ServerInit == server = "up" /\ resp = [r \in Requests |-> NoResponse]

Running == server \in {"up", "closing"}

\* r has reached this point and its listener goes on with these changes.
Goes(r, from, new) ==
    /\ Running
    /\ resp[r].at = from
    /\ resp' = [resp EXCEPT ![r] = new]
    /\ UNCHANGED server

\* res.end(): on a closed connection it does nothing.
Ended(x) == [x EXCEPT !.at = "over", !.ended = x.client]

----------------------------------------------------------------------------
(* The listener *)

\* A closing server takes no connection.
Accept(r) ==
    /\ server = "up"
    /\ Goes(r, "none", [NoResponse EXCEPT !.at = "handler", !.client = TRUE])

\* Mutant of Begun: a response without a body is not ended.
BegunUnlessNone(x, body, n) ==
    CASE body = "none"  -> [x EXCEPT !.at = "over"]
      [] body = "whole" -> Ended([x EXCEPT !.sent = n])
      [] body = "web"   -> [x EXCEPT !.at = "read", !.left = n]
      [] body = "node"  -> [x EXCEPT !.at = "pipe", !.left = n]

\* What the listener does with a body of n chunks.
Begun(x, body, n) ==
    CASE body = "none"  -> Ended(x)
      [] body = "whole" -> Ended([x EXCEPT !.sent = n])
      [] body = "web"   -> [x EXCEPT !.at = "read", !.left = n]
      [] body = "node"  -> [x EXCEPT !.at = "pipe", !.left = n]

\* The handler and both conversions have succeeded.
Respond(r) ==
    \E body \in Bodies, n \in 0..MaxChunks :
        Goes(r, "handler", Begun(resp[r], body, n))

\* The catch block: too late for a status once something was written.
Caught(x) == Ended([x EXCEPT !.ok = (x.sent > 0), !.spoiled = (x.sent > 0)])

\* The handler or a conversion throws.
Throw(r) == Goes(r, "handler", Caught(resp[r]))

\* pump: the stream is done.
EndBody(r) == resp[r].left = 0 /\ Goes(r, "read", Ended(resp[r]))

\* pump: res.write(value) returns ok or not; a destroyed response takes nothing.
Write(r) ==
    \E ok \in BOOLEAN :
        LET x == resp[r] IN
        /\ x.left > 0
        /\ ok => x.client
        /\ Goes(r, "read", [x EXCEPT !.left = @ - 1,
                                     !.sent = IF x.client THEN @ + 1 ELSE @,
                                     !.at = IF ok THEN "read" ELSE "drain"])

\* reader.read() rejects.  Below a drain nobody handles pump's rejection.
ReadFails(r) ==
    IF resp[r].resumed
    THEN /\ Running
         /\ resp[r].at = "read"
         /\ server' = "crashed"
         /\ UNCHANGED resp
    ELSE Goes(r, "read", Caught(resp[r]))

\* Mutant of Drained: the promise is resolved by "drain" itself and the
\* response then ended.
DrainedAndEnded(x) == Ended([x EXCEPT !.resumed = TRUE])

\* pump runs on.
Drained(x) == [x EXCEPT !.at = "read", !.resumed = TRUE]

\* A closed connection never drains, and nobody listens for "close".
Drain(r) == resp[r].client /\ Goes(r, "drain", Drained(resp[r]))

\* pipe(): Node moves the chunks and ends the response.
Pipe(r) ==
    LET x == resp[r] IN
    Goes(r, "pipe", IF x.left = 0 \/ ~x.client THEN Ended(x)
                    ELSE [x EXCEPT !.left = @ - 1, !.sent = @ + 1])

\* Nobody listens to a piped source's error.
PipeFails(r) ==
    /\ Running
    /\ resp[r].at = "pipe"
    /\ server' = "crashed"
    /\ UNCHANGED resp

\* The client closes its connection.
Leave(r) ==
    /\ Running
    /\ resp[r].client /\ ~resp[r].ended
    /\ resp' = [resp EXCEPT ![r].client = FALSE]
    /\ UNCHANGED server

----------------------------------------------------------------------------
(* Shutdown *)

\* SIGTERM or SIGINT: server.close().
Shutdown ==
    /\ server = "up"
    /\ server' = "closing"
    /\ UNCHANGED resp

Open(r) == resp[r].client /\ ~resp[r].ended

\* close's callback: no connection is left.
Exit ==
    /\ server = "closing"
    /\ ~ \E r \in Requests : Open(r)
    /\ server' = "exited"
    /\ UNCHANGED resp

\* The listener of r goes on, when what it awaits has come.
Listener(r) ==
    \/ Respond(r) \/ Throw(r)
    \/ EndBody(r) \/ Write(r) \/ ReadFails(r)
    \/ Drain(r)
    \/ Pipe(r) \/ PipeFails(r)

ServerNext ==
    \/ \E r \in Requests : Accept(r) \/ Listener(r) \/ Leave(r)
    \/ Shutdown \/ Exit

\* The handler answers, sources give their chunks or fail, Node's event loop
\* runs.  Clients take what they are sent or leave.
ServerFairness ==
    /\ \A r \in Requests : WF_serverVars(Listener(r))
    /\ WF_serverVars(Exit)

ServerSpec == ServerInit /\ [][ServerNext]_serverVars /\ ServerFairness

----------------------------------------------------------------------------
ServerTypeOK ==
    /\ server \in {"up", "closing", "exited", "crashed"}
    /\ resp \in [Requests -> Response]

\* A client whose response was ended with its own status has the whole body,
\* however often its buffer filled up, unless the source failed after the first
\* chunk: then the text of the error has been appended.
EndedIsWhole ==
    \A r \in Requests :
        resp[r].ended /\ resp[r].ok /\ ~resp[r].spoiled => resp[r].left = 0

\* SIGTERM ends the process, once the responses in progress have ended.
ShutdownEnds == server = "closing" ~> server \in {"exited", "crashed"}
=============================================================================
