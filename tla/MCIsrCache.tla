----------------------------- MODULE MCIsrCache -----------------------------
(* Instances of IsrCache for TLC. *)
EXTENDS IsrCache, TLC

CONSTANTS c1, c2, b1, b2, p1, p2, t1, t2

\* Two pages that share their one tag, served by pods of one build.
OneBuild == [c \in Calls |-> b1]
SharedTag == [p \in Pages |-> {t1}]

\* A canary: each call runs on a pod of its own build.
TwoBuilds == [c \in Calls |-> IF c = c1 THEN b1 ELSE b2]

\* One page with two tags.
TwoTags == [p \in Pages |-> {t1, t2}]

\* Any command may fail and any call may die, for ever, but for the DEL of
\* getLastModified: a Redis out of memory refuses SET and SADD and accepts DEL.
NotClearing == Stages \ {"clearStamps"}

\* Only the commands of a page request's lookup may fail.
Lookup == {"readEntry", "readTags", "readStamps", "clearStamps"}

None == {}

Symmetry == Permutations(Calls) \cup Permutations(Pages)
=============================================================================
