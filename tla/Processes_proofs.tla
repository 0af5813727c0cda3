-------------------------- MODULE Processes_proofs --------------------------
(***************************************************************************)
(* Proofs about what runs inside a pod: its start, its module loader and   *)
(* its readiness probe.                                                    *)
(***************************************************************************)
EXTENDS Bootstrap, ModuleLoader, DeepHealth, TLAPS

----------------------------------------------------------------------------
(* The start of a pod, for any modules and batches. *)

BootTypeOK ==
    /\ batches \in Nat
    /\ batch \in Seq(Modules)

\* The first batch is the runtime bundle alone: once it is through, the runtime
\* has been imported, and nothing is served before.
RuntimeIsFirst ==
    /\ \/ batches = 0 /\ batch = <<>>
       \/ batch = <<Runtime>>
       \/ Runtime \in loadedUrls
    /\ boot \in {"extract", "serving", "silent"} => Runtime \in loadedUrls
    /\ boot = "serving" => extracted = "all"

BootInv == BootTypeOK /\ RuntimeIsFirst

LEMMA BootInvInit == BootInit => BootInv
  BY DEF BootInit, BootInv, BootTypeOK, RuntimeIsFirst

LEMMA BootInvNext == BootInv /\ [BootNext]_bootVars => BootInv'
<1> SUFFICES ASSUME BootInv, [BootNext]_bootVars PROVE BootInv'
  OBVIOUS
<1> USE ModulesAssumption DEF BootInv, BootTypeOK, RuntimeIsFirst
<1>1. CASE UNCHANGED bootVars
  BY <1>1 DEF bootVars
<1>2. ASSUME NEW modules \in Batches, LoadWithProgress(modules) PROVE BootInv'
  <2>1. modules \in Seq(Modules)
    BY DEF Batches
  <2> QED BY <1>2, <2>1 DEF LoadWithProgress
<1>3. CASE Skip
  BY <1>3 DEF Skip
<1>4. CASE Imported
  BY <1>4 DEF Imported
<1>5. CASE LoadThrows
  BY <1>5 DEF LoadThrows
<1>6. CASE Downloads
  BY <1>6 DEF Downloads
<1>7. CASE Extracts
  BY <1>7 DEF Extracts
<1>8. CASE ExtractFails
  BY <1>8 DEF ExtractFails
<1>9. CASE Starts
  BY <1>9 DEF Starts, Closed
<1> QED BY <1>1, <1>2, <1>3, <1>4, <1>5, <1>6, <1>7, <1>8, <1>9 DEF BootNext

\* A server runs only over the runtime bundle and the whole of the page's
\* artifacts (bootstrap.ts, boot; runtime-entry.ts).
THEOREM ServerIsWhole == BootSpec => []ServesWhole
<1>1. BootInv => ServesWhole
  BY DEF BootInv, RuntimeIsFirst, ServesWhole
<1> QED BY <1>1, BootInvInit, BootInvNext, PTL DEF BootSpec

----------------------------------------------------------------------------
(* The module loader, for any routes, calls and versions. *)

Busy == {"fetch", "run"}

\* Every load in flight is in the table under its route, and what is in the
\* table is in flight.
TableIsExact ==
    /\ \A c \in Loads : load[c].at \in Busy => loading[load[c].route] = c
    /\ \A r \in Routes : InFlight(r) => load[loading[r]].at \in Busy /\ load[loading[r]].route = r

\* Every call that waits, waits for a load in flight.
WaitsAreFounded ==
    \A c \in Loads : load[c].at = "wait" =>
        load[c].on \in Loads /\ load[load[c].on].at \in Busy

\* A bundle that is cached is not being fetched as well, and what runs has been fetched.
CachedOrInFlight ==
    /\ \A r \in Routes : ~(cache[r] # NoBundle /\ InFlight(r))
    /\ \A c \in Loads : load[c].at = "run" => load[c].got # NoBundle

Held(r) == cache[r] # NoBundle \/ InFlight(r)

\* Every fetch but the one whose bundle is held had an occasion to be repeated.
FetchesAreAccounted ==
    \A r \in Routes : fetches[r] <= refetches[r] + (IF Held(r) THEN 1 ELSE 0)

LoaderInv == LoaderTypeOK /\ TableIsExact /\ WaitsAreFounded /\ CachedOrInFlight /\ FetchesAreAccounted

LEMMA LoaderInvInit == LoaderInit => LoaderInv
<1> SUFFICES ASSUME LoaderInit PROVE LoaderInv
  OBVIOUS
<1>1. (CHOOSE r \in Routes : TRUE) \in Routes
  BY LoaderAssumption
<1>2. LoaderTypeOK
  BY <1>1, LoaderAssumption DEF LoaderInit, LoaderTypeOK, NoLoad, LoadStages, Versions
<1>3. \A c \in Loads : load[c].at = "none"
  BY DEF LoaderInit, NoLoad
<1>4. \A r \in Routes : cache[r] = NoBundle /\ ~InFlight(r) /\ fetches[r] = 0 /\ refetches[r] = 0
  BY DEF LoaderInit, InFlight
<1> QED BY <1>2, <1>3, <1>4
        DEF LoaderInv, TableIsExact, WaitsAreFounded, CachedOrInFlight, FetchesAreAccounted, Busy, Held

\* A call that goes on without a load of its own leaves the table as it is.
LEMMA TableStays ==
  ASSUME LoaderInv, NEW c \in Loads, load[c].at = "none", NEW x, x.at \notin Busy,
         \A d \in Loads : load'[d] = IF d = c THEN x ELSE load[d],
         UNCHANGED loading
  PROVE  TableIsExact'
<1>1. ASSUME NEW d \in Loads, load'[d].at \in Busy PROVE loading'[load'[d].route] = d
  <2>1. d # c /\ load'[d] = load[d]
    BY <1>1
  <2> QED BY <1>1, <2>1 DEF LoaderInv, TableIsExact
<1>2. ASSUME NEW q \in Routes, loading'[q] # NoBundle
      PROVE  load'[loading'[q]].at \in Busy /\ load'[loading'[q]].route = q
  <2>1. loading[q] \in Loads /\ InFlight(q)
    BY <1>2 DEF LoaderInv, LoaderTypeOK, InFlight
  <2>2. loading[q] # c /\ load[loading[q]].at \in Busy /\ load[loading[q]].route = q
    BY <2>1 DEF LoaderInv, TableIsExact, Busy
  <2> QED BY <2>1, <2>2
<1> QED BY <1>1, <1>2 DEF TableIsExact, InFlight

\* The first load of a route is found in no map; the others change no map at all.
LEMMA LoadKeepsInv ==
  ASSUME LoaderInv, NEW c \in Loads, NEW r \in Routes, Load(c, r)
  PROVE  LoaderInv'
<1> USE LoaderAssumption
<1>0. /\ load[c].at = "none" /\ UNCHANGED <<stored, cache, refetches, clears>>
      /\ r \in Routes
  BY DEF Load
<1>0a. /\ NoLoad \in [at : LoadStages, route : Routes, got : Versions \cup {NoBundle},
                       on : Loads \cup {NoBundle}]
       /\ NoLoad.got = NoBundle /\ NoLoad.on = NoBundle
  <2>1. (CHOOSE q \in Routes : TRUE) \in Routes
    OBVIOUS
  <2> QED BY <2>1 DEF NoLoad, LoadStages
<1>1. CASE cache[r] # NoBundle
  <2> DEFINE x == [NoLoad EXCEPT !.at = "loaded", !.route = r, !.got = cache[r]]
  <2>1. /\ x \in [at : LoadStages, route : Routes, got : Versions \cup {NoBundle},
                  on : Loads \cup {NoBundle}]
        /\ x.at = "loaded" /\ x.route = r /\ x.got = cache[r] /\ x.on = NoBundle
    BY <1>0, <1>0a DEF LoaderInv, LoaderTypeOK, LoadStages
  <2>2. load' = [load EXCEPT ![c] = x] /\ UNCHANGED <<loading, fetches>>
    BY <1>1 DEF Load
  <2> HIDE DEF x
  <2>3. LoaderTypeOK'
    BY <1>0, <2>1, <2>2 DEF LoaderInv, LoaderTypeOK, LoadStages
  <2>4. \A d \in Loads : load'[d] = IF d = c THEN x ELSE load[d]
    BY <2>2 DEF LoaderInv, LoaderTypeOK
  <2>5. TableIsExact'
    BY <1>0, <2>1, <2>2, <2>4, TableStays DEF Busy
  <2>5a. WaitsAreFounded'
    BY <1>0, <2>1, <2>4 DEF LoaderInv, WaitsAreFounded, Busy
  <2>6. (CachedOrInFlight /\ FetchesAreAccounted)'
    BY <1>0, <2>1, <2>2, <2>4 DEF LoaderInv, CachedOrInFlight, FetchesAreAccounted, InFlight, Held
  <2> QED BY <2>3, <2>5, <2>5a, <2>6 DEF LoaderInv
<1>2. CASE cache[r] = NoBundle /\ InFlight(r)
  <2> DEFINE x == [NoLoad EXCEPT !.at = "wait", !.route = r, !.on = loading[r]]
  <2>1. /\ x \in [at : LoadStages, route : Routes, got : Versions \cup {NoBundle},
                  on : Loads \cup {NoBundle}]
        /\ x.at = "wait" /\ x.route = r /\ x.got = NoBundle /\ x.on = loading[r]
    BY <1>0, <1>0a DEF LoaderInv, LoaderTypeOK, LoadStages
  <2>2. load' = [load EXCEPT ![c] = x] /\ UNCHANGED <<loading, fetches>>
    BY <1>2 DEF Load
  <2> HIDE DEF x
  <2>3. LoaderTypeOK'
    BY <1>0, <2>1, <2>2 DEF LoaderInv, LoaderTypeOK, LoadStages
  <2>4. \A d \in Loads : load'[d] = IF d = c THEN x ELSE load[d]
    BY <2>2 DEF LoaderInv, LoaderTypeOK
  <2>5. loading[r] \in Loads /\ load[loading[r]].at \in Busy
    BY <1>2 DEF LoaderInv, LoaderTypeOK, TableIsExact, InFlight
  <2>6. TableIsExact'
    BY <1>0, <2>1, <2>2, <2>4, TableStays DEF Busy
  <2>6a. WaitsAreFounded'
    BY <1>0, <2>1, <2>4, <2>5 DEF LoaderInv, WaitsAreFounded, Busy
  <2>7. (CachedOrInFlight /\ FetchesAreAccounted)'
    BY <1>0, <2>1, <2>2, <2>4 DEF LoaderInv, CachedOrInFlight, FetchesAreAccounted, InFlight, Held
  <2> QED BY <2>3, <2>6, <2>6a, <2>7 DEF LoaderInv
<1>3. CASE cache[r] = NoBundle /\ ~InFlight(r)
  <2> DEFINE x == [NoLoad EXCEPT !.at = "fetch", !.route = r]
  <2>1. /\ x \in [at : LoadStages, route : Routes, got : Versions \cup {NoBundle},
                  on : Loads \cup {NoBundle}]
        /\ x.at = "fetch" /\ x.route = r /\ x.got = NoBundle /\ x.on = NoBundle
    BY <1>0, <1>0a DEF LoaderInv, LoaderTypeOK, LoadStages
  <2>2. /\ load' = [load EXCEPT ![c] = x] /\ loading' = [loading EXCEPT ![r] = c]
        /\ fetches' = [fetches EXCEPT ![r] = @ + 1]
    BY <1>3 DEF Load
  <2> HIDE DEF x
  <2>3. LoaderTypeOK'
    BY <1>0, <2>1, <2>2 DEF LoaderInv, LoaderTypeOK, LoadStages
  <2>4. /\ \A d \in Loads : load'[d] = IF d = c THEN x ELSE load[d]
        /\ \A q \in Routes : /\ loading'[q] = IF q = r THEN c ELSE loading[q]
                             /\ fetches'[q] = IF q = r THEN fetches[r] + 1 ELSE fetches[q]
    BY <2>2 DEF LoaderInv, LoaderTypeOK
  <2>5. \A d \in Loads : load[d].at \in Busy => load[d].route # r
    BY <1>3 DEF LoaderInv, LoaderTypeOK, TableIsExact, InFlight
  <2>6. TableIsExact'
    <3>1. ASSUME NEW d \in Loads, load'[d].at \in Busy PROVE loading'[load'[d].route] = d
      <4>1. CASE d = c
        BY <1>0, <2>1, <2>4, <4>1
      <4>2. CASE d # c
        <5>1. load'[d] = load[d] /\ load[d].route \in Routes /\ load[d].route # r
          BY <3>1, <4>2, <2>4, <2>5 DEF LoaderInv, LoaderTypeOK
        <5> QED BY <3>1, <2>4, <5>1 DEF LoaderInv, TableIsExact
      <4> QED BY <4>1, <4>2
    <3>2. ASSUME NEW q \in Routes, loading'[q] # NoBundle
          PROVE  load'[loading'[q]].at \in Busy /\ load'[loading'[q]].route = q
      <4>1. CASE q = r
        BY <4>1, <2>1, <2>4 DEF Busy
      <4>2. CASE q # r
        <5>1. loading'[q] = loading[q] /\ loading[q] \in Loads /\ InFlight(q)
          BY <3>2, <4>2, <2>4 DEF LoaderInv, LoaderTypeOK, InFlight
        <5>2. loading[q] # c /\ load[loading[q]].at \in Busy /\ load[loading[q]].route = q
          BY <1>0, <5>1 DEF LoaderInv, TableIsExact, Busy
        <5> QED BY <2>4, <5>1, <5>2
      <4> QED BY <4>1, <4>2
    <3> QED BY <3>1, <3>2 DEF TableIsExact, InFlight
  <2>6a. WaitsAreFounded'
    BY <1>0, <2>1, <2>4 DEF LoaderInv, WaitsAreFounded, Busy
  <2>7. CachedOrInFlight'
    BY <1>0, <1>3, <2>1, <2>4 DEF LoaderInv, CachedOrInFlight, InFlight
  <2>8. FetchesAreAccounted'
    BY <1>0, <1>3, <2>4 DEF LoaderInv, LoaderTypeOK, FetchesAreAccounted, InFlight, Held
  <2> QED BY <2>3, <2>6, <2>6a, <2>7, <2>8 DEF LoaderInv
<1> QED BY <1>1, <1>2, <1>3

LEMMA FetchKeepsInv ==
  ASSUME LoaderInv, NEW c \in Loads, Fetch(c)
  PROVE  LoaderInv'
<1> USE LoaderAssumption
<1> DEFINE x == [load[c] EXCEPT !.at = "run", !.got = stored[load[c].route]]
<1>1. /\ load[c].at = "fetch"
      /\ load' = [load EXCEPT ![c] = x]
      /\ UNCHANGED <<stored, cache, loading, fetches, refetches, clears>>
  BY DEF Fetch, LoaderInv, LoaderTypeOK
<1>2. /\ x \in [at : LoadStages, route : Routes, got : Versions \cup {NoBundle},
                on : Loads \cup {NoBundle}]
      /\ x.at = "run" /\ x.route = load[c].route /\ x.got \in Versions
  BY DEF LoaderInv, LoaderTypeOK, LoadStages
<1> HIDE DEF x
<1>3. LoaderTypeOK'
  BY <1>1, <1>2 DEF LoaderInv, LoaderTypeOK
<1>4. \A d \in Loads : load'[d] = IF d = c THEN x ELSE load[d]
  BY <1>1 DEF LoaderInv, LoaderTypeOK
<1>5. (TableIsExact /\ WaitsAreFounded)'
  BY <1>1, <1>2, <1>4 DEF LoaderInv, LoaderTypeOK, TableIsExact, WaitsAreFounded, InFlight, Busy
<1>6. (CachedOrInFlight /\ FetchesAreAccounted)'
  BY <1>1, <1>2, <1>4 DEF LoaderInv, CachedOrInFlight, FetchesAreAccounted, InFlight, Held, Versions
<1> QED BY <1>3, <1>5, <1>6 DEF LoaderInv

\* A promise that settles leaves the table, and all that wait on it go on.
LEMMA SettledKeepsTable ==
  ASSUME LoaderInv, NEW c \in Loads, load[c].at \in Busy,
         NEW how \in {"loaded", "failed"}, NEW bundle \in Versions \cup {NoBundle},
         Unload(load[c].route, how), Settled(c, how, bundle)
  PROVE  /\ loading' \in [Routes -> Loads \cup {NoBundle}]
         /\ load' \in [Loads -> [at : LoadStages, route : Routes, got : Versions \cup {NoBundle},
                                 on : Loads \cup {NoBundle}]]
         /\ (TableIsExact /\ WaitsAreFounded)'
         /\ \A d \in Loads : load'[d].at = "run" => load'[d] = load[d]
         /\ \A q \in Routes : loading'[q] = IF q = load[c].route THEN NoBundle ELSE loading[q]
<1> DEFINE r == load[c].route
           moved(d) == d = c \/ (load[d].at = "wait" /\ load[d].on = c)
           x(d) == [load[d] EXCEPT !.at = how, !.got = bundle, !.on = NoBundle]
<1> USE LoaderAssumption
<1>1. \A d \in Loads : load'[d] = IF moved(d) THEN x(d) ELSE load[d]
  BY DEF Settled
<1>2. \A d \in Loads : /\ x(d) \in [at : LoadStages, route : Routes, got : Versions \cup {NoBundle},
                                    on : Loads \cup {NoBundle}]
                       /\ x(d).at = how
  BY DEF LoaderInv, LoaderTypeOK, LoadStages
<1>3. \A q \in Routes : loading'[q] = IF q = r THEN NoBundle ELSE loading[q]
  BY DEF Unload, LoaderInv, LoaderTypeOK
<1>4. loading' \in [Routes -> Loads \cup {NoBundle}]
  BY DEF Unload, LoaderInv, LoaderTypeOK
<1>5. r \in Routes /\ loading[r] = c
  BY DEF LoaderInv, LoaderTypeOK, TableIsExact
<1> HIDE DEF r, x
<1>6. load' \in [Loads -> [at : LoadStages, route : Routes, got : Versions \cup {NoBundle},
                           on : Loads \cup {NoBundle}]]
  BY <1>1, <1>2 DEF Settled, LoaderInv, LoaderTypeOK, x
<1>7. \A d \in Loads : load'[d].at \in Busy => load'[d] = load[d] /\ d # c
  BY <1>1, <1>2 DEF Busy
<1>8. TableIsExact'
  <2>1. ASSUME NEW d \in Loads, load'[d].at \in Busy PROVE loading'[load'[d].route] = d
    BY <2>1, <1>3, <1>5, <1>7 DEF LoaderInv, LoaderTypeOK, TableIsExact
  <2>2. ASSUME NEW q \in Routes, loading'[q] # NoBundle
        PROVE  load'[loading'[q]].at \in Busy /\ load'[loading'[q]].route = q
    <3>1. q # r /\ loading'[q] = loading[q] /\ loading[q] \in Loads
      BY <2>2, <1>3 DEF LoaderInv, LoaderTypeOK
    <3>2. load[loading[q]].at \in Busy /\ load[loading[q]].route = q
      BY <2>2, <3>1 DEF LoaderInv, TableIsExact, InFlight
    <3>3. ~moved(loading[q])
      BY <3>1, <3>2 DEF Busy, r
    <3> QED BY <1>1, <3>1, <3>2, <3>3
  <2> QED BY <2>1, <2>2 DEF TableIsExact, InFlight
<1>9. WaitsAreFounded'
  <2> SUFFICES ASSUME NEW d \in Loads, load'[d].at = "wait"
               PROVE  load'[d].on \in Loads /\ load'[load'[d].on].at \in Busy
    BY DEF WaitsAreFounded
  <2>1. ~moved(d) /\ load'[d] = load[d]
    BY <1>1, <1>2
  <2>2. load[d].on \in Loads /\ load[d].on # c /\ load[load[d].on].at \in Busy
    BY <2>1 DEF LoaderInv, WaitsAreFounded
  <2>3. ~moved(load[d].on)
    BY <2>2 DEF Busy
  <2> QED BY <1>1, <2>1, <2>2, <2>3
<1>10. \A d \in Loads : load'[d].at = "run" => load'[d] = load[d]
  BY <1>7 DEF Busy
<1> QED BY <1>3, <1>4, <1>6, <1>8, <1>9, <1>10 DEF r

LEMMA LoadedKeepsInv ==
  ASSUME LoaderInv, NEW c \in Loads, Loaded(c)
  PROVE  LoaderInv'
<1> DEFINE r == load[c].route
<1> USE LoaderAssumption
<1>1. /\ load[c].at = "run" /\ cache' = [cache EXCEPT ![r] = load[c].got]
      /\ Unload(r, "loaded") /\ Settled(c, "loaded", load[c].got)
      /\ UNCHANGED <<stored, fetches, refetches, clears>>
  BY DEF Loaded
<1>2. load[c].got \in Versions /\ r \in Routes /\ InFlight(r)
  BY <1>1 DEF LoaderInv, LoaderTypeOK, CachedOrInFlight, TableIsExact, InFlight, Busy
<1>3. /\ loading' \in [Routes -> Loads \cup {NoBundle}]
      /\ load' \in [Loads -> [at : LoadStages, route : Routes, got : Versions \cup {NoBundle},
                              on : Loads \cup {NoBundle}]]
      /\ (TableIsExact /\ WaitsAreFounded)'
      /\ \A d \in Loads : load'[d].at = "run" => load'[d] = load[d]
      /\ \A q \in Routes : loading'[q] = IF q = r THEN NoBundle ELSE loading[q]
  BY <1>1, <1>2, SettledKeepsTable DEF Busy
<1>4. LoaderTypeOK'
  BY <1>1, <1>2, <1>3 DEF LoaderInv, LoaderTypeOK
<1>5. \A q \in Routes : cache'[q] = IF q = r THEN load[c].got ELSE cache[q]
  BY <1>1 DEF LoaderInv, LoaderTypeOK
<1>6. load[c].got # NoBundle
  BY <1>1 DEF LoaderInv, CachedOrInFlight
<1> HIDE DEF r
<1>7. CachedOrInFlight'
  BY <1>3, <1>5 DEF LoaderInv, CachedOrInFlight, InFlight
<1>8. FetchesAreAccounted'
  BY <1>1, <1>2, <1>3, <1>5, <1>6 DEF LoaderInv, FetchesAreAccounted, InFlight, Held
<1> QED BY <1>3, <1>4, <1>7, <1>8 DEF LoaderInv

LEMMA LoadFailsKeepsInv ==
  ASSUME LoaderInv, NEW c \in Loads, LoadFails(c)
  PROVE  LoaderInv'
<1> DEFINE r == load[c].route
<1> USE LoaderAssumption
<1>1. /\ load[c].at \in Busy /\ refetches' = [refetches EXCEPT ![r] = @ + 1]
      /\ Unload(r, "failed") /\ Settled(c, "failed", NoBundle)
      /\ UNCHANGED <<stored, cache, fetches, clears>>
  BY DEF LoadFails, Busy
<1>2. r \in Routes
  BY DEF LoaderInv, LoaderTypeOK
<1>2a. NoBundle \in Versions \cup {NoBundle} /\ "failed" \in {"loaded", "failed"}
  OBVIOUS
<1>3. /\ loading' \in [Routes -> Loads \cup {NoBundle}]
      /\ load' \in [Loads -> [at : LoadStages, route : Routes, got : Versions \cup {NoBundle},
                              on : Loads \cup {NoBundle}]]
      /\ (TableIsExact /\ WaitsAreFounded)'
      /\ \A d \in Loads : load'[d].at = "run" => load'[d] = load[d]
      /\ \A q \in Routes : loading'[q] = IF q = r THEN NoBundle ELSE loading[q]
  BY <1>1, <1>2a, SettledKeepsTable
<1>4. LoaderTypeOK'
  <2>1. refetches' \in [Routes -> Nat]
    <3> HIDE DEF r
    <3> QED BY <1>1, <1>2 DEF LoaderInv, LoaderTypeOK
  <2> QED BY <1>1, <1>3, <2>1 DEF LoaderInv, LoaderTypeOK
<1>5. \A q \in Routes : refetches'[q] = IF q = r THEN refetches[q] + 1 ELSE refetches[q]
  BY <1>1 DEF LoaderInv, LoaderTypeOK
<1> HIDE DEF r
<1>6. CachedOrInFlight'
  BY <1>1, <1>3 DEF LoaderInv, CachedOrInFlight, InFlight
<1>7. FetchesAreAccounted'
  BY <1>1, <1>2, <1>3, <1>5 DEF LoaderInv, LoaderTypeOK, FetchesAreAccounted, InFlight, Held
<1> QED BY <1>3, <1>4, <1>6, <1>7 DEF LoaderInv

LEMMA LoaderInvNext == LoaderInv /\ [LoaderNext]_loaderVars => LoaderInv'
<1> SUFFICES ASSUME LoaderInv, [LoaderNext]_loaderVars PROVE LoaderInv'
  OBVIOUS
<1> USE LoaderAssumption
<1>1. CASE UNCHANGED loaderVars
  BY <1>1 DEF loaderVars, LoaderInv, LoaderTypeOK, TableIsExact, WaitsAreFounded, CachedOrInFlight,
              FetchesAreAccounted, InFlight, Held
<1>2. CASE ClearCache
  <2>1. LoaderTypeOK'
    BY <1>2 DEF ClearCache, LoaderInv, LoaderTypeOK
  <2>2. (TableIsExact /\ WaitsAreFounded)'
    BY <1>2 DEF ClearCache, LoaderInv, TableIsExact, WaitsAreFounded, InFlight
  <2>3. CachedOrInFlight'
    BY <1>2 DEF ClearCache, LoaderInv, CachedOrInFlight, InFlight
  <2>4. FetchesAreAccounted'
    BY <1>2 DEF ClearCache, LoaderInv, LoaderTypeOK, FetchesAreAccounted, CachedOrInFlight, InFlight, Held
  <2> QED BY <2>1, <2>2, <2>3, <2>4 DEF LoaderInv
<1>3. ASSUME NEW r \in Routes, Upload(r) PROVE LoaderInv'
  BY <1>3 DEF Upload, LoaderInv, LoaderTypeOK, TableIsExact, WaitsAreFounded, CachedOrInFlight,
              FetchesAreAccounted, InFlight, Held, Versions
<1> QED BY <1>1, <1>2, <1>3, LoadKeepsInv, FetchKeepsInv, LoadedKeepsInv, LoadFailsKeepsInv
        DEF LoaderNext

LEMMA LoaderInvariant == LoaderSpec => []LoaderInv
  BY LoaderInvInit, LoaderInvNext, PTL DEF LoaderSpec

\* Nobody waits for a load that is over, however loads fail, caches are cleared
\* and calls meet (module_loader.ts, the loading map and its finally).
THEOREM NobodyWaitsInVain == LoaderSpec => []LoadingIsInFlight
<1>1. LoaderInv => LoadingIsInFlight
  BY DEF LoaderInv, TableIsExact, WaitsAreFounded, LoadingIsInFlight, InFlight, Busy
<1> QED BY <1>1, LoaderInvariant, PTL

\* However many calls want a bundle at once, it is fetched once, and again only
\* after a failure or a clear (module_loader.ts, loadPageBundle).
THEOREM NoNeedlessFetch == LoaderSpec => []FetchesAreNeeded
<1>1. LoaderInv => FetchesAreNeeded
  BY DEF LoaderInv, LoaderTypeOK, FetchesAreAccounted, FetchesAreNeeded
<1> QED BY <1>1, LoaderInvariant, PTL

----------------------------------------------------------------------------
(* The readiness probe, for either dependency, both or none, and for any    *)
(* number of outages.                                                      *)

\* A check in progress has a word on every configured dependency.
HealthInv ==
    /\ check \in Check
    /\ check.running => \A d \in Configured : check.checks[d] # "unconfigured"

LEMMA NoCheckIsOne == NoCheck \in Check /\ NoCheck.running = FALSE
  BY DEF NoCheck, Check

LEMMA HealthInvInit == HealthInit => HealthInv
  BY NoCheckIsOne DEF HealthInit, HealthInv

LEMMA HealthInvNext == HealthInv /\ [HealthNext]_healthVars => HealthInv'
<1> SUFFICES ASSUME HealthInv, [HealthNext]_healthVars PROVE HealthInv'
  OBVIOUS
<1> USE ConfiguredAssumption DEF HealthInv
<1>1. CASE UNCHANGED healthVars
  BY <1>1 DEF healthVars
<1>2. CASE StartCheck
  <2> DEFINE c == [d \in Dependencies |-> IF d \in Configured THEN "down" ELSE "unconfigured"]
  <2>1. c \in [Dependencies -> {"up", "down", "unconfigured"}]
    OBVIOUS
  <2>2. \A d \in Configured : c[d] = "down"
    OBVIOUS
  <2>3. check' = [running |-> TRUE, status |-> "ok", checks |-> c, waiting |-> Configured]
    BY <1>2 DEF StartCheck
  <2> HIDE DEF c
  <2> QED BY <2>1, <2>2, <2>3 DEF Check
<1>3. CASE AllSettled \/ Timeout
  BY <1>3, NoCheckIsOne DEF AllSettled, Timeout, FinishCheck
<1>4. ASSUME NEW d \in Dependencies, Succeeds(d) PROVE HealthInv'
  <2>1. check' = [check EXCEPT !.checks = [check.checks EXCEPT ![d] = "up"],
                               !.waiting = check.waiting \ {d}]
    BY <1>4 DEF Succeeds
  <2>2. [check.checks EXCEPT ![d] = "up"] \in [Dependencies -> {"up", "down", "unconfigured"}]
    BY DEF Check
  <2>3. check' \in Check
    BY <2>1, <2>2 DEF Check
  <2>4. \A e \in Configured : check'.checks[e] # "unconfigured"
    BY <1>4, <2>1 DEF Succeeds, Check
  <2> QED BY <2>3, <2>4
<1>5. ASSUME NEW d \in Dependencies, Fails(d) PROVE HealthInv'
  BY <1>5 DEF Fails, Check
<1>6. ASSUME NEW d \in Dependencies, GoUp(d) \/ GoDown(d) PROVE HealthInv'
  BY <1>6 DEF GoUp, GoDown
<1>7. CASE ConnectRedis
  BY <1>7 DEF ConnectRedis
<1> QED BY <1>1, <1>2, <1>3, <1>4, <1>5, <1>6, <1>7 DEF HealthNext

LEMMA HealthStep ==
  HealthInv /\ [HealthNext]_healthVars =>
    [ready' /\ ~ready => \A d \in Configured : check.checks[d] = "up"]_healthVars
<1> SUFFICES ASSUME HealthInv, HealthNext, ready', ~ready, NEW d \in Configured
             PROVE  check.checks[d] = "up"
  BY DEF HealthInv
<1> USE ConfiguredAssumption
<1>1. CASE AllSettled
  <2>1. Respond200(Verdict(check.status, check.checks)) /\ check.running
    BY <1>1 DEF AllSettled, FinishCheck
  <2>2. check.checks[d] # "down"
    BY <2>1 DEF Respond200, Verdict
  <2> QED BY <2>1, <2>2 DEF HealthInv, Check
<1>2. CASE Timeout
  <2>1. Respond200(Verdict("down", check.checks))
    BY <1>2 DEF Timeout, FinishCheck
  <2> QED BY <2>1 DEF Respond200, Verdict
<1>3. CASE ~AllSettled /\ ~Timeout
  <2>1. ready' = ready
    BY <1>3 DEF HealthNext, StartCheck, Succeeds, Fails, GoUp, GoDown, ConnectRedis
  <2> QED BY <2>1
<1> QED BY <1>1, <1>2, <1>3

\* The pod becomes ready only through a check that every configured dependency
\* has answered, neither by a failure nor by the timer (health-check.ts, the
\* verdict; api/health/route.ts, the status).
THEOREM ReadyMeansAnswered == HealthSpec => ReadyWasAnswered
<1>1. HealthInv /\ [HealthNext]_healthVars =>
        [ready' /\ ~ready => \A d \in Configured : check.checks[d] = "up"]_healthVars
  BY HealthStep
<1> QED BY <1>1, HealthInvInit, HealthInvNext, PTL DEF HealthSpec, ReadyWasAnswered
=============================================================================
