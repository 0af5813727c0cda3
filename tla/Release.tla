------------------------------ MODULE Release -------------------------------
(***************************************************************************)
(* What a deployment promises: a release goes live only when the image it  *)
(* runs is in the registry and, unless it waives that, when all its assets *)
(* can be fetched.                                                         *)
(***************************************************************************)
CONSTANTS
    Images,          \* what can be pushed
    Assets,          \* the files that can be uploaded
    Namespaces,      \* where a release can be live
    AssetsOf,        \* the files that the pages of an image refer to
    NotLive

VARIABLES
    pushed,      \* the images that have been pushed
    assets,      \* the files that can be fetched
    live         \* in each namespace the release: its image, and whether it waives its assets

releaseVars == <<pushed, assets, live>>

ReleaseInit == pushed = {} /\ assets = {} /\ live = [n \in Namespaces |-> NotLive]

Push ==
    /\ \E image \in Images : pushed' = pushed \cup {image}
    /\ UNCHANGED <<assets, live>>

Upload ==
    /\ \E files \in SUBSET Assets : assets' = assets \cup files
    /\ UNCHANGED <<pushed, live>>

GoLive(n) ==
    /\ \E image \in pushed, waived \in BOOLEAN :
        /\ waived \/ AssetsOf[image] \subseteq assets
        /\ live' = [live EXCEPT ![n] = [image |-> image, waived |-> waived]]
    /\ UNCHANGED <<pushed, assets>>

Withdraw(n) ==
    /\ live' = [live EXCEPT ![n] = NotLive]
    /\ UNCHANGED <<pushed, assets>>

Clear ==
    /\ \E left \in SUBSET assets : assets' = left
    /\ UNCHANGED <<pushed, live>>

ReleaseNext == Push \/ Upload \/ Clear \/ \E n \in Namespaces : GoLive(n) \/ Withdraw(n)

ReleaseSpec == ReleaseInit /\ [][ReleaseNext]_releaseVars
=============================================================================
