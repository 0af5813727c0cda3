---------------------------- MODULE ModuleLoader ----------------------------
(***************************************************************************)
(* The module loader of the runtime shim                                   *)
(* (packages/cli/internal/shim/module_loader.ts): page bundles are fetched *)
(* from object storage when first asked for, kept in a map, and a call for *)
(* a bundle on its way awaits the same promise.  The bucket may get a      *)
(* newer bundle at any time.                                               *)
(***************************************************************************)
EXTENDS Naturals, FiniteSets

CONSTANTS
    Routes,        \* normalized routes
    Loads,         \* the calls of loadPageBundle
    NoBundle,      \* no entry in a map
    MaxVersions,   \* bound: the versions of a bundle
    MaxClears      \* bound: the calls of clearCache

ASSUME LoaderAssumption ==
    /\ NoBundle \notin Nat \cup Loads
    /\ Routes # {} /\ MaxVersions \in Nat \ {0} /\ MaxClears \in Nat

VARIABLES
    stored,     \* the version of each route's bundle in storage
    cache,      \* the loader's cache
    loading,    \* the loader's loads in flight, named after the call that began it
    load,       \* each call's route, position and result
    fetches,    \* history: fetches begun, by route
    refetches,  \* history: the occasions to fetch again, by route
    clears      \* counter for the bound

loaderVars == <<stored, cache, loading, load, fetches, refetches, clears>>

Versions == 1..MaxVersions
LoadStages == {"none", "fetch", "run", "wait", "loaded", "failed"}
NoLoad == [at |-> "none", route |-> CHOOSE r \in Routes : TRUE, got |-> NoBundle, on |-> NoBundle]

LoaderInit ==
    /\ stored = [r \in Routes |-> 1]
    /\ cache = [r \in Routes |-> NoBundle]
    /\ loading = [r \in Routes |-> NoBundle]
    /\ load = [c \in Loads |-> NoLoad]
    /\ fetches = [r \in Routes |-> 0] /\ refetches = [r \in Routes |-> 0]
    /\ clears = 0

\* Mutant of InFlight: loads in flight are not looked for.
InFlightNever(r) == FALSE

InFlight(r) == loading[r] # NoBundle

\* loadPageBundle up to its first await.  preload begins several at once.
Load(c, r) ==
    /\ load[c].at = "none"
    /\ \/ /\ cache[r] # NoBundle
          /\ load' = [load EXCEPT ![c] = [NoLoad EXCEPT !.at = "loaded", !.route = r,
                                                        !.got = cache[r]]]
          /\ UNCHANGED <<loading, fetches>>
       \/ /\ cache[r] = NoBundle /\ InFlight(r)
          /\ load' = [load EXCEPT ![c] = [NoLoad EXCEPT !.at = "wait", !.route = r,
                                                        !.on = loading[r]]]
          /\ UNCHANGED <<loading, fetches>>
       \/ /\ cache[r] = NoBundle /\ ~InFlight(r)
          /\ load' = [load EXCEPT ![c] = [NoLoad EXCEPT !.at = "fetch", !.route = r]]
          /\ loading' = [loading EXCEPT ![r] = c]
          /\ fetches' = [fetches EXCEPT ![r] = @ + 1]
    /\ UNCHANGED <<stored, cache, refetches, clears>>

\* fetchBundle: storage answers with the bundle it has now.
Fetch(c) ==
    /\ load[c].at = "fetch"
    /\ load' = [load EXCEPT ![c].at = "run", ![c].got = stored[load[c].route]]
    /\ UNCHANGED <<stored, cache, loading, fetches, refetches, clears>>

\* The promise of c is settled: c and the calls that wait on it go on with it.
Settled(c, how, bundle) ==
    load' = [d \in Loads |->
               IF d = c \/ (load[d].at = "wait" /\ load[d].on = c)
               THEN [load[d] EXCEPT !.at = how, !.got = bundle, !.on = NoBundle] ELSE load[d]]

\* Mutant of Unload: done on success only.
UnloadIfLoaded(r, how) == loading' = [loading EXCEPT ![r] = IF how = "loaded" THEN NoBundle ELSE @]

\* finally: this.loading.delete(normalizedRoute)
Unload(r, how) == loading' = [loading EXCEPT ![r] = NoBundle]

\* The bundle's code has run: the cache is filled.
Loaded(c) ==
    LET r == load[c].route IN
    /\ load[c].at = "run"
    /\ cache' = [cache EXCEPT ![r] = load[c].got]
    /\ Unload(r, "loaded")
    /\ Settled(c, "loaded", load[c].got)
    /\ UNCHANGED <<stored, fetches, refetches, clears>>

\* The request, its status or the bundle's code fails.
LoadFails(c) ==
    LET r == load[c].route IN
    /\ load[c].at \in {"fetch", "run"}
    /\ Unload(r, "failed")
    /\ Settled(c, "failed", NoBundle)
    /\ refetches' = [refetches EXCEPT ![r] = @ + 1]
    /\ UNCHANGED <<stored, cache, fetches, clears>>

\* clearCache empties the cache and leaves the loads in flight alone.
ClearCache ==
    /\ clears < MaxClears
    /\ clears' = clears + 1
    /\ cache' = [r \in Routes |-> NoBundle]
    /\ refetches' = [r \in Routes |-> IF cache[r] = NoBundle THEN refetches[r] ELSE refetches[r] + 1]
    /\ UNCHANGED <<stored, loading, load, fetches>>

\* Another bundle is uploaded.
Upload(r) ==
    /\ stored[r] < MaxVersions
    /\ stored' = [stored EXCEPT ![r] = @ + 1]
    /\ UNCHANGED <<cache, loading, load, fetches, refetches, clears>>

LoaderNext ==
    \/ \E c \in Loads : Fetch(c) \/ Loaded(c) \/ LoadFails(c) \/ \E r \in Routes : Load(c, r)
    \/ ClearCache
    \/ \E r \in Routes : Upload(r)

LoaderSpec ==
    /\ LoaderInit /\ [][LoaderNext]_loaderVars
    /\ \A c \in Loads : WF_loaderVars(Fetch(c)) /\ WF_loaderVars(Loaded(c) \/ LoadFails(c))

----------------------------------------------------------------------------
LoaderTypeOK ==
    /\ stored \in [Routes -> Versions]
    /\ cache \in [Routes -> Versions \cup {NoBundle}]
    /\ loading \in [Routes -> Loads \cup {NoBundle}]
    /\ load \in [Loads -> [at : LoadStages, route : Routes, got : Versions \cup {NoBundle},
                           on : Loads \cup {NoBundle}]]
    /\ fetches \in [Routes -> Nat] /\ refetches \in [Routes -> Nat]
    /\ clears \in 0..MaxClears

\* A bundle is fetched once, and again only for a failed load or after it was
\* cleared, however many calls want it at the same time.
FetchesAreNeeded == \A r \in Routes : fetches[r] <= 1 + refetches[r]

\* Nobody waits for a load that is over: what loading holds is in flight, so that
\* a failure can be retried and every call ends.
LoadingIsInFlight ==
    /\ \A r \in Routes : InFlight(r) =>
          load[loading[r]].at \in {"fetch", "run"} /\ load[loading[r]].route = r
    /\ \A c \in Loads : load[c].at = "wait" => load[load[c].on].at \in {"fetch", "run"}
=============================================================================
