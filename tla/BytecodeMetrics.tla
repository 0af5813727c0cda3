-------------------------- MODULE BytecodeMetrics ---------------------------
(***************************************************************************)
(* The metrics of V8's compile cache, a directory on a volume that the     *)
(* pods of an application share.  There are two sets of them in a pod:     *)
(* kn-next/src/adapters/bytecode-metrics.ts, polled every ten seconds and  *)
(* served at /metrics, and apps/file-manager/src/app/api/metrics/route.ts, *)
(* computed when it is scraped.  Times and sizes are left out.             *)
(***************************************************************************)
EXTENDS Naturals

CONSTANTS
    MaxFiles,    \* bound: the files in the directory
    MaxWrites    \* bound: the files written to it during the pod's lifetime

ASSUME FilesAssumption == MaxFiles \in Nat /\ MaxWrites \in Nat

VARIABLES
    files,      \* the files in the directory, one per compiled module
    found,      \* the files there when the pod started
    written,    \* the files written to it since, by this pod or another
    wrapper,    \* bytecode-metrics.ts: its gauges, its counter and lastCount
    route       \* metrics/route.ts: its gauges

metricsVars == <<files, found, written, wrapper, route>>

\* Before NODE_COMPILE_CACHE is known to be set and the directory scanned.
Unset == [polling |-> FALSE, total |-> 0, warm |-> FALSE, lastCount |-> 0, writes |-> 0]

MetricsInit ==
    /\ files \in 0..MaxFiles
    /\ found = files
    /\ written = 0
    /\ wrapper = Unset
    /\ route = [recorded |-> FALSE, total |-> 0, warm |-> FALSE]

\* scanCacheDirectory, scanCacheDir: a file may go before it is looked at, and
\* a directory that cannot be read counts as empty.
Scans == 0..files

\* initBytecodeCacheMetrics, with NODE_COMPILE_CACHE set.
InitMetrics ==
    /\ ~wrapper.polling
    /\ \E n \in Scans :
         wrapper' = [polling |-> TRUE, total |-> n, warm |-> n > 0,
                     lastCount |-> 0, writes |-> 0]
    /\ UNCHANGED <<files, found, written, route>>

\* Mutant of Polled: lastCount keeps its value.
PolledWithoutCount(w, n) ==
    IF n > w.lastCount
    THEN [w EXCEPT !.writes = @ + (n - w.lastCount), !.total = n]
    ELSE w

\* watchCacheWrites' timer: growth beyond the largest count seen is counted.
Polled(w, n) ==
    IF n > w.lastCount
    THEN [w EXCEPT !.writes = @ + (n - w.lastCount), !.lastCount = n, !.total = n]
    ELSE w

Poll ==
    /\ wrapper.polling
    /\ \E n \in Scans : wrapper' = Polled(wrapper, n)
    /\ UNCHANGED <<files, found, written, route>>

\* recordStartupMetrics, when the route is first imported.
RecordStartup ==
    /\ ~route.recorded
    /\ \E n \in Scans : route' = [route EXCEPT !.recorded = TRUE, !.warm = n > 0]
    /\ UNCHANGED <<files, found, written, wrapper>>

\* GET /api/metrics
Scrape ==
    /\ route.recorded
    /\ \E n \in Scans : route' = [route EXCEPT !.total = n]
    /\ UNCHANGED <<files, found, written, wrapper>>

\* V8 of this pod or of another writes a module's bytecode.
WriteFile ==
    /\ files < MaxFiles /\ written < MaxWrites
    /\ files' = files + 1
    /\ written' = written + 1
    /\ UNCHANGED <<found, wrapper, route>>

\* The volume is cleaned up, or a stale file removed.
RemoveFile ==
    /\ files > 0
    /\ files' = files - 1
    /\ UNCHANGED <<found, written, wrapper, route>>

MetricsNext == InitMetrics \/ Poll \/ RecordStartup \/ Scrape \/ WriteFile \/ RemoveFile

MetricsSpec == MetricsInit /\ [][MetricsNext]_metricsVars

----------------------------------------------------------------------------
\* The counter never counts a file twice, whatever comes, goes and hides
\* between polls: it counts at most the files the pod found and those written
\* since.  It does count the ones it found, on a warm volume, which its help
\* text does not say ("during pod lifetime", bytecode-metrics.ts:66).
NoFileCountedTwice == wrapper.writes <= found + written
=============================================================================
