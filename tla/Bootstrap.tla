----------------------------- MODULE Bootstrap ------------------------------
(***************************************************************************)
(* The start of a pod of the runtime shim (packages/cli/internal/shim):    *)
(* bootstrap.ts loads the runtime bundle through ModuleMonitor, downloads  *)
(* and extracts the page's artifacts, and calls the runtime's start.       *)
(* ModuleMonitor is modelled for any batches of modules, though boot loads *)
(* one of one.                                                             *)
(***************************************************************************)
EXTENDS Naturals, Sequences, FiniteSets

CONSTANTS
    Modules,       \* the URLs that a batch may list, the runtime bundle first
    Runtime,       \* the runtime bundle
    MaxBatches     \* bound: calls of loadWithProgress

ASSUME ModulesAssumption == Runtime \in Modules /\ MaxBatches \in Nat

VARIABLES
    boot,       \* where boot is
    batch,      \* the modules that loadWithProgress has still to load
    batches,    \* counter for the bound
    loadedUrls, \* the modules that ModuleMonitor has loaded
    extracted   \* the artifacts on disk: "none", "part" or "all"

bootVars == <<boot, batch, batches, loadedUrls, extracted>>

BootInit ==
    /\ boot = "load"
    /\ batch = <<>>
    /\ batches = 0
    /\ loadedUrls = {}
    /\ extracted = "none"

----------------------------------------------------------------------------
(* ModuleMonitor *)

\* loadWithProgress begins; boot's own call comes first and lists the runtime.
LoadWithProgress(modules) ==
    /\ boot = "load" /\ batch = <<>> /\ batches < MaxBatches
    /\ batches = 0 => modules = <<Runtime>>
    /\ batches' = batches + 1
    /\ batch' = modules
    /\ UNCHANGED <<boot, loadedUrls, extracted>>

\* A module loaded before is passed over.
Skip ==
    /\ boot = "load" /\ batch # <<>> /\ Head(batch) \in loadedUrls
    /\ batch' = Tail(batch)
    /\ UNCHANGED <<boot, batches, loadedUrls, extracted>>

\* A module is in.  The snapshots made as loading gets on change nothing here:
\* CacheManager's upload is a stub.
Imported ==
    /\ boot = "load" /\ batch # <<>> /\ Head(batch) \notin loadedUrls
    /\ loadedUrls' = loadedUrls \cup {Head(batch)}
    /\ batch' = Tail(batch)
    /\ UNCHANGED <<boot, batches, extracted>>

\* loadModule throws, and nobody catches it before boot does: process.exit(1).
LoadThrows ==
    /\ boot = "load" /\ batch # <<>> /\ Head(batch) \notin loadedUrls
    /\ boot' = "exited"
    /\ UNCHANGED <<batch, batches, loadedUrls, extracted>>

----------------------------------------------------------------------------
(* boot *)

Downloads ==
    /\ boot = "load" /\ batch = <<>> /\ batches > 0
    /\ boot' = "extract"
    /\ extracted' = "part"
    /\ UNCHANGED <<batch, batches, loadedUrls>>

\* tar is done: exit code 0.
Extracts ==
    /\ boot = "extract"
    /\ extracted' = "all"
    /\ UNCHANGED <<boot, batch, batches, loadedUrls>>

\* The artifacts are not there, or tar fails.
ExtractFails ==
    /\ boot = "extract" /\ extracted = "part"
    /\ boot' = "exited"
    /\ UNCHANGED <<batch, batches, loadedUrls, extracted>>

\* Mutant of Closed: tar is spawned and not waited for.
ClosedAtOnce == TRUE

\* downloadAndExtract waits for tar's "close".
Closed == extracted = "all"

\* The runtime's start is called and imports server.js; runtime-entry.ts logs a
\* failure and returns, next-runtime-entry.ts throws it.
Starts ==
    /\ boot = "extract" /\ Closed
    /\ boot' \in {"serving", "silent", "exited"}
    /\ UNCHANGED <<batch, batches, loadedUrls, extracted>>

Batches == UNION {[1..n -> Modules] : n \in 1..Cardinality(Modules)}

BootNext ==
    \/ \E modules \in Batches : LoadWithProgress(modules)
    \/ Skip \/ Imported \/ LoadThrows
    \/ Downloads \/ Extracts \/ ExtractFails \/ Starts

BootSpec == BootInit /\ [][BootNext]_bootVars

----------------------------------------------------------------------------
\* A server runs only over the runtime and the whole of the page's artifacts.
ServesWhole == boot = "serving" => extracted = "all" /\ Runtime \in loadedUrls
=============================================================================
