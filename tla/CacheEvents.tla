---------------------------- MODULE CacheEvents -----------------------------
(***************************************************************************)
(* The log of cache events of one pod, a global array with the newest      *)
(* event first, and the page that shows it.  Two loggers write to it:      *)
(* kn-next/src/adapters/cache-events.ts keeps 100 events and the           *)
(* application's cache-handler.js 200.  The page (app/cache/page.tsx) asks *)
(* /api/cache/events for the events every five seconds, and its answers    *)
(* may overtake each other.  An event is its number and its type.          *)
(***************************************************************************)
EXTENDS Naturals, Sequences, FiniteSets

CONSTANTS
    SmallBound, LargeBound,   \* MAX_EVENTS of the two loggers
    PageSize,                 \* how many events the route returns
    Types,                    \* the types of event that are logged
    MaxChanges,               \* bound: events logged and logs cleared
    Polls                     \* the requests the page may have in flight

EventTypes == {"HIT", "MISS", "SET", "DELETE", "INVALIDATE", "REVALIDATE"}

ASSUME EventBoundsAssumption ==
    /\ {SmallBound, LargeBound, PageSize, MaxChanges} \subseteq Nat
    /\ 0 < SmallBound /\ SmallBound <= LargeBound
    /\ Types \subseteq EventTypes

VARIABLES
    cacheEvents,          \* the pod's array
    cacheEventCounter,    \* the pod's counter
    logged,               \* history: events logged since the array was emptied
    changes,              \* counter for the bound
    page,                 \* the events that the page shows, and its statistics
    polls,                \* the page's requests and the answers on their way
    clearing              \* the answer to the page's DELETE is on its way

podVars   == <<cacheEvents, cacheEventCounter, logged, changes>>
eventVars == <<podVars, page, polls, clearing>>

First(s, n) == SubSeq(s, 1, IF Len(s) < n THEN Len(s) ELSE n)

Hits(events, types) == Cardinality({i \in DOMAIN events : events[i].type \in types})

\* getCacheStats; the hit rate is hits out of total.
Stats(events) ==
    [hits |-> Hits(events, {"HIT"}), total |-> Hits(events, {"HIT", "MISS"}),
     sets |-> Hits(events, {"SET"}), totalEvents |-> Len(events)]

NoAnswer == [at |-> "none", events |-> <<>>, stats |-> Stats(<<>>)]

EventsInit ==
    /\ cacheEvents = <<>>
    /\ cacheEventCounter = 0
    /\ logged = 0 /\ changes = 0
    /\ clearing = FALSE
    /\ page = [events |-> <<>>, stats |-> Stats(<<>>)]
    /\ polls = [q \in Polls |-> NoAnswer]

\* Mutant of Logged: the event is appended, and the first events kept.
LoggedLast(event, bound) == First(cacheEvents \o <<event>>, bound)

\* logCacheEvent: unshift, then slice.
Logged(event, bound) == First(<<event>> \o cacheEvents, bound)

LogCacheEvent(type, bound) ==
    /\ changes < MaxChanges
    /\ changes' = changes + 1
    /\ cacheEventCounter' = cacheEventCounter + 1
    /\ logged' = logged + 1
    /\ cacheEvents' = Logged([id |-> cacheEventCounter + 1, type |-> type], bound)
    /\ UNCHANGED <<page, polls, clearing>>

\* DELETE /api/cache/events, sent by the page.
ClearCacheEvents ==
    /\ changes < MaxChanges /\ ~clearing
    /\ changes' = changes + 1
    /\ cacheEvents' = <<>> /\ cacheEventCounter' = 0
    /\ logged' = 0
    /\ clearing' = TRUE
    /\ UNCHANGED <<page, polls>>

----------------------------------------------------------------------------
(* The page *)

\* fetchEvents: GET /api/cache/events is sent by the timer, after an
\* invalidation, or by the Refresh button.
SendPoll(q) ==
    /\ polls[q].at = "none"
    /\ polls' = [polls EXCEPT ![q].at = "sent"]
    /\ UNCHANGED <<podVars, page, clearing>>

\* The route answers with the statistics and the newest events.
AnswerPoll(q) ==
    /\ polls[q].at = "sent"
    /\ polls' = [polls EXCEPT ![q] = [at |-> "answered", events |-> First(cacheEvents, PageSize),
                                      stats |-> Stats(cacheEvents)]]
    /\ UNCHANGED <<podVars, page, clearing>>

\* Mutant of Shown: an empty answer is taken for no answer.
ShownIfAny(answer) == IF answer.events = <<>> THEN page
                      ELSE [events |-> answer.events, stats |-> answer.stats]

\* setEvents and setStats
Shown(answer) == [events |-> answer.events, stats |-> answer.stats]

ShowPoll(q) ==
    /\ polls[q].at = "answered"
    /\ page' = Shown(polls[q])
    /\ polls' = [polls EXCEPT ![q] = NoAnswer]
    /\ UNCHANGED <<podVars, clearing>>

\* The request fails: the page keeps what it shows.
PollFails(q) ==
    /\ polls[q].at # "none"
    /\ polls' = [polls EXCEPT ![q] = NoAnswer]
    /\ UNCHANGED <<podVars, page, clearing>>

\* handleClearEvents has its answer: the page is emptied without asking again.
ShowCleared ==
    /\ clearing
    /\ clearing' = FALSE
    /\ page' = [events |-> <<>>, stats |-> Stats(<<>>)]
    /\ UNCHANGED <<podVars, polls>>

EventsNext ==
    \/ \E type \in Types, bound \in {SmallBound, LargeBound} : LogCacheEvent(type, bound)
    \/ ClearCacheEvents
    \/ ShowCleared
    \/ \E q \in Polls : SendPoll(q) \/ AnswerPoll(q) \/ ShowPoll(q) \/ PollFails(q)

\* The page's timer goes on, and requests that are sent again and again are not
\* all lost before the answer or before it is shown.
EventsFairness ==
    /\ \A q \in Polls : /\ WF_eventVars(SendPoll(q))
                       /\ SF_eventVars(AnswerPoll(q)) /\ SF_eventVars(ShowPoll(q))
    /\ WF_eventVars(ShowCleared)

EventsSpec == EventsInit /\ [][EventsNext]_eventVars /\ EventsFairness

----------------------------------------------------------------------------
\* The array holds the newest events, without a gap, and never fewer than the
\* smaller bound while there are as many.
NewestAreKept ==
    /\ \A i \in DOMAIN cacheEvents : cacheEvents[i].id = cacheEventCounter + 1 - i
    /\ Len(cacheEvents) >= IF logged < SmallBound THEN logged ELSE SmallBound
    /\ Len(cacheEvents) <= LargeBound

\* Whatever overtakes what, once the pod is quiet the page comes to show what the
\* pod has, also when that is nothing.
PageCatchesUp == <>[](page.events = First(cacheEvents, PageSize))
=============================================================================
