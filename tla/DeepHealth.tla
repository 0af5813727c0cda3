----------------------------- MODULE DeepHealth -----------------------------
(***************************************************************************)
(* The readiness probe of a pod: checkDeepHealth (lib/src/health) asks     *)
(* Postgres and Redis, in parallel and for three seconds at most, and      *)
(* /api/health turns the result into 200 or 503 for the kubelet, which     *)
(* asks again and again.                                                   *)
(*                                                                         *)
(* The clients are made lazily and kept.  The one for Redis has no offline *)
(* queue: what is sent before it has connected fails at once.              *)
(***************************************************************************)
EXTENDS Naturals

CONSTANTS
    Configured,    \* the dependencies whose URL is set
    MaxOutages     \* bound: how often a dependency goes away

Dependencies == {"postgres", "redis"}

ASSUME ConfiguredAssumption == Configured \subseteq Dependencies /\ MaxOutages \in Nat

VARIABLES
    up,         \* whether a dependency answers, and in time
    outages,    \* counter for the bound
    redisCache, \* the client for Redis: "none", "connecting" or "ready"
    check,      \* the check in progress
    ready       \* what the kubelet last heard: 200 or not

healthVars == <<up, outages, redisCache, check, ready>>

\* waiting: the dependencies whose answer is awaited.
Check == [running : BOOLEAN, status : {"ok", "degraded", "down"},
          checks : [Dependencies -> {"up", "down", "unconfigured"}],
          waiting : SUBSET Dependencies]

NoCheck == [running |-> FALSE, status |-> "ok",
            checks |-> [d \in Dependencies |-> "unconfigured"], waiting |-> {}]

HealthInit ==
    /\ up = [d \in Dependencies |-> FALSE]
    /\ outages = 0
    /\ redisCache = "none"
    /\ check = NoCheck
    /\ ready = FALSE

\* Mutant of RedisClient: every check makes its own client.
RedisClientForOneCheck == "connecting"

\* getRedisClient
RedisClient == IF redisCache = "none" THEN "connecting" ELSE redisCache

StartCheck ==
    /\ ~check.running
    /\ check' = [running |-> TRUE, status |-> "ok",
                 checks |-> [d \in Dependencies |-> IF d \in Configured THEN "down"
                                                    ELSE "unconfigured"],
                 waiting |-> Configured]
    /\ redisCache' = IF "redis" \in Configured THEN RedisClient ELSE redisCache
    /\ UNCHANGED <<up, outages, ready>>

Answers(d) == up[d] /\ (d = "redis" => redisCache = "ready")

\* The query or the ping returns.
Succeeds(d) ==
    /\ check.running /\ d \in check.waiting
    /\ Answers(d)
    /\ check' = [check EXCEPT !.checks[d] = "up", !.waiting = @ \ {d}]
    /\ UNCHANGED <<up, outages, redisCache, ready>>

\* The query or the ping throws.
Fails(d) ==
    /\ check.running /\ d \in check.waiting
    /\ ~Answers(d)
    /\ check' = [check EXCEPT !.status = "degraded", !.waiting = @ \ {d}]
    /\ UNCHANGED <<up, outages, redisCache, ready>>

\* Mutant of Verdict: degraded stays degraded.
VerdictAsIs(status, checks) == status

\* A configured dependency that has not answered counts as down.
Verdict(status, checks) == IF \E d \in Dependencies : checks[d] = "down" THEN "down" ELSE status

\* The route's answer; nothing of this process runs between it and the verdict.
Respond200(status) == status \in {"ok", "degraded"}

FinishCheck(status) ==
    /\ ready' = Respond200(Verdict(status, check.checks))
    /\ check' = NoCheck
    /\ UNCHANGED <<up, outages, redisCache>>

\* Promise.all settles.
AllSettled == check.running /\ check.waiting = {} /\ FinishCheck(check.status)

\* The timer wins: an answer is missing for three seconds.
Overdue(waiting) == \E d \in waiting : ~Answers(d)

Timeout == check.running /\ Overdue(check.waiting) /\ FinishCheck("down")

----------------------------------------------------------------------------
(* The dependencies and ioredis *)

GoUp(d) ==
    /\ ~up[d]
    /\ up' = [up EXCEPT ![d] = TRUE]
    /\ UNCHANGED <<outages, redisCache, check, ready>>

\* A connection lost: ioredis begins to reconnect.
GoDown(d) ==
    /\ up[d] /\ outages < MaxOutages
    /\ outages' = outages + 1
    /\ up' = [up EXCEPT ![d] = FALSE]
    /\ redisCache' = IF d = "redis" /\ redisCache = "ready" THEN "connecting" ELSE redisCache
    /\ UNCHANGED <<check, ready>>

ConnectRedis ==
    /\ redisCache = "connecting" /\ up["redis"]
    /\ redisCache' = "ready"
    /\ UNCHANGED <<up, outages, check, ready>>

HealthNext ==
    \/ StartCheck \/ AllSettled \/ Timeout
    \/ \E d \in Dependencies : Succeeds(d) \/ Fails(d) \/ GoUp(d) \/ GoDown(d)
    \/ ConnectRedis

\* The kubelet probes on, what answers in time does so before the timer, ioredis
\* retries.  A dependency that hangs need not even fail.
HealthFairness ==
    /\ WF_healthVars(StartCheck)
    /\ WF_healthVars(AllSettled)
    /\ WF_healthVars(Timeout)
    /\ \A d \in Dependencies : WF_healthVars(Succeeds(d))
    /\ WF_healthVars(ConnectRedis)

HealthSpec == HealthInit /\ [][HealthNext]_healthVars /\ HealthFairness

----------------------------------------------------------------------------
\* The pod becomes ready only through a check that every configured dependency
\* has answered: a failure or the timer never passes for health.
ReadyWasAnswered ==
    [][ready' /\ ~ready => \A d \in Configured : check.checks[d] = "up"]_healthVars

\* Once everything is up for good, the pod is ready for good, although the first
\* ping of a new client always fails, and although a check may hang.
HealthyBecomesReady == <>[](\A d \in Configured : up[d]) => <>[]ready
=============================================================================
