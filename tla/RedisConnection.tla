-------------------------- MODULE RedisConnection ---------------------------
(***************************************************************************)
(* How the three users of Redis in a pod get their connection: the         *)
(* adapters redis-cache.ts and redis-tag-cache.ts (ensureConnected, word   *)
(* for word the same) and the application's cache-handler.js.  Each has a  *)
(* lazily connected ioredis client of its own, and a promise of its        *)
(* connection that concurrent calls share.                                 *)
(*                                                                         *)
(* ioredis is external: connect() is refused while it is connecting or     *)
(* ready, fails when the connection closes first, and a connection that is *)
(* lost is retried for ever.                                               *)
(***************************************************************************)
EXTENDS Naturals

CONSTANT MaxDrops    \* bound: how often Redis goes away

ASSUME DropsAssumption == MaxDrops \in Nat

Adapters == {"redis-cache", "redis-tag-cache"}
Users    == Adapters \cup {"cache-handler"}

VARIABLES
    reachable,    \* whether Redis accepts connections
    drops,        \* counter for the bound
    status,       \* ioredis: client.status, by user
    promise,      \* connectionPromise, connectPromise
    caller,       \* a call of ensureConnected
    outcome       \* how the last one ended: with a client to use or without

connectionVars == <<reachable, drops, status, promise, caller, outcome>>

ConnectionInit ==
    /\ reachable = FALSE /\ drops = 0
    /\ status = [u \in Users |-> "wait"]
    /\ promise = [u \in Users |-> "none"]
    /\ caller = [u \in Users |-> "idle"]
    /\ outcome = [u \in Users |-> "none"]

Return(u, how) == caller' = [caller EXCEPT ![u] = "idle"] /\ outcome' = [outcome EXCEPT ![u] = how]

\* The adapters look at the promise first, the handler at the status.
ReadyAtOnce(u) ==
    IF u \in Adapters THEN promise[u] = "resolved" \/ (promise[u] = "none" /\ status[u] = "ready")
    ELSE status[u] = "ready"

\* ensureConnected returns without waiting.
Reuse(u) ==
    /\ caller[u] = "idle"
    /\ ReadyAtOnce(u)
    /\ Return(u, "client")
    /\ UNCHANGED <<reachable, drops, status, promise>>

\* ensureConnected awaits the promise there is.
Join(u) ==
    /\ caller[u] = "idle"
    /\ ~ReadyAtOnce(u)
    /\ promise[u] # "none"
    /\ caller' = [caller EXCEPT ![u] = "await"]
    /\ UNCHANGED <<reachable, drops, status, promise, outcome>>

\* ensureConnected calls connect(), which ioredis refuses in mid-connection.
Begin(u) ==
    /\ caller[u] = "idle"
    /\ ~ReadyAtOnce(u)
    /\ promise[u] = "none"
    /\ caller' = [caller EXCEPT ![u] = "await"]
    /\ IF status[u] \in {"connecting", "ready"}
       THEN promise' = [promise EXCEPT ![u] = "rejected"] /\ UNCHANGED status
       ELSE /\ promise' = [promise EXCEPT ![u] = "pending"]
            /\ status' = [status EXCEPT ![u] = "connecting"]
    /\ UNCHANGED <<reachable, drops, outcome>>

\* Mutant of AfterRejection: the catch clause only throws.
AfterRejectionKept(u) == "rejected"

\* The catch clause allows another attempt.
AfterRejection(u) == "none"

\* The promise is settled: the adapters throw or go on, the handler looks at
\* the status again and falls back to memory.
Settle(u) ==
    /\ caller[u] = "await"
    /\ promise[u] \in {"resolved", "rejected"}
    /\ promise' = [promise EXCEPT ![u] = IF @ = "rejected" THEN AfterRejection(u) ELSE @]
    /\ Return(u, IF promise[u] # "rejected" /\ (u \in Adapters \/ status[u] = "ready")
                 THEN "client" ELSE "none")
    /\ UNCHANGED <<reachable, drops, status>>

----------------------------------------------------------------------------
(* ioredis *)

Resolved(u, how) == promise' = [promise EXCEPT ![u] = IF @ = "pending" THEN how ELSE @]

Connects(u) ==
    /\ status[u] = "connecting" /\ reachable
    /\ status' = [status EXCEPT ![u] = "ready"]
    /\ Resolved(u, "resolved")
    /\ UNCHANGED <<reachable, drops, caller, outcome>>

\* The attempt fails and retryStrategy sets the next one.
ConnectFailure(u) ==
    /\ status[u] = "connecting" /\ ~reachable
    /\ status' = [status EXCEPT ![u] = "reconnecting"]
    /\ Resolved(u, "rejected")
    /\ UNCHANGED <<reachable, drops, caller, outcome>>

Reconnects(u) ==
    /\ status[u] = "reconnecting"
    /\ status' = [status EXCEPT ![u] = "connecting"]
    /\ UNCHANGED <<reachable, drops, promise, caller, outcome>>

Appear ==
    /\ ~reachable
    /\ reachable' = TRUE
    /\ UNCHANGED <<drops, status, promise, caller, outcome>>

\* Redis goes away, and with it the connections.
Vanish ==
    /\ reachable /\ drops < MaxDrops
    /\ drops' = drops + 1
    /\ reachable' = FALSE
    /\ status' = [u \in Users |-> IF status[u] = "ready" THEN "reconnecting" ELSE status[u]]
    /\ UNCHANGED <<promise, caller, outcome>>

ConnectionNext ==
    \/ \E u \in Users :
         \/ Reuse(u) \/ Join(u) \/ Begin(u) \/ Settle(u)
         \/ Connects(u) \/ ConnectFailure(u) \/ Reconnects(u)
    \/ Appear \/ Vanish

\* Requests come in, promises are handled, ioredis keeps trying.
ConnectionFairness ==
    \A u \in Users :
        /\ WF_connectionVars(Reuse(u) \/ Join(u) \/ Begin(u))
        /\ WF_connectionVars(Settle(u))
        /\ WF_connectionVars(Connects(u) \/ ConnectFailure(u))
        /\ WF_connectionVars(Reconnects(u))

ConnectionSpec == ConnectionInit /\ [][ConnectionNext]_connectionVars /\ ConnectionFairness

----------------------------------------------------------------------------
\* Once Redis can be reached for good, all three users come to use it for good:
\* an attempt that failed, or a connection that was lost, is no obstacle for ever.
RedisIsUsedAgain == <>[]reachable => <>[](\A u \in Users : outcome[u] = "client")
=============================================================================
