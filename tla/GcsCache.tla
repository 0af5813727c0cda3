------------------------------ MODULE GcsCache ------------------------------
(***************************************************************************)
(* The ISR incremental cache over Google Cloud Storage                     *)
(* (kn-next/src/adapters/gcs-cache.ts) for one key.  A get is three        *)
(* requests; save and delete are one each, and GCS serves every request    *)
(* from the latest write.                                                  *)
(***************************************************************************)
EXTENDS Naturals

CONSTANTS
    Gets,         \* the calls of get
    MaxSaves,     \* bound: how often the entry is saved
    NoObject      \* there is no object

ASSUME SavesAssumption == MaxSaves \in Nat /\ NoObject \notin Nat

VARIABLES
    object,    \* the object's generation, which is also its metadata.updated
    saves,     \* how often the entry was saved
    get        \* each call's position and what it has read

gcsVars == <<object, saves, get>>

Generations == 1..MaxSaves \cup {NoObject}

\* Date.now(), later than every generation.
Now == MaxSaves + 1

GetCall == [at : {"none", "exists", "metadata", "download", "hit", "miss"},
            updated : Generations \cup {Now}, content : Generations]

GcsInit ==
    /\ object = NoObject
    /\ saves = 0
    /\ get = [g \in Gets |-> [at |-> "none", updated |-> NoObject, content |-> NoObject]]

Asks(g, from, new) ==
    /\ get[g].at = from
    /\ get' = [get EXCEPT ![g] = new]
    /\ UNCHANGED <<object, saves>>

StartGet(g) == Asks(g, "none", [get[g] EXCEPT !.at = "exists"])

\* file.exists()
Exists(g) ==
    Asks(g, "exists", [get[g] EXCEPT !.at = IF object = NoObject THEN "miss" ELSE "metadata"])

\* Mutant of ReadInOrder: the content is read before the date.
ReadContentFirst == <<"content", "updated">>

\* What the two further requests read: getMetadata the date, download the content.
ReadInOrder == <<"updated", "content">>

\* Metadata may lack the date, for which get answers with the time of the day.
Values(field) == IF field = "updated" THEN {object, Now} ELSE {object}

\* Both find the object that is there then; one deleted meanwhile makes them throw, a miss.
Reads(g, from, to, field) ==
    \E x \in Values(field) :
        Asks(g, from, [get[g] EXCEPT !.at = IF object = NoObject THEN "miss" ELSE to, ![field] = x])

Metadata(g) == Reads(g, "metadata", "download", ReadInOrder[1])

Download(g) == Reads(g, "download", "hit", ReadInOrder[2])

\* A request fails: the catch block answers with a miss.
GetFails(g) ==
    /\ get[g].at \in {"exists", "metadata", "download"}
    /\ Asks(g, get[g].at, [get[g] EXCEPT !.at = "miss"])

\* set: one upload, which GCS makes visible at once; a failed one is swallowed.
Save ==
    /\ saves < MaxSaves
    /\ saves' = saves + 1
    /\ object' \in {saves + 1, object}
    /\ UNCHANGED get

\* delete, which ignores that there is nothing.
Delete ==
    /\ object' = NoObject
    /\ UNCHANGED <<saves, get>>

GcsNext ==
    \/ \E g \in Gets :
         \/ StartGet(g) \/ Exists(g)
         \/ Metadata(g) \/ Download(g) \/ GetFails(g)
    \/ Save \/ Delete

GcsSpec == GcsInit /\ [][GcsNext]_gcsVars

----------------------------------------------------------------------------
GcsTypeOK ==
    /\ object \in Generations
    /\ saves \in 0..MaxSaves
    /\ get \in [Gets -> GetCall]

\* The date a hit returns is never later than the content it returns, so an
\* entry that a revalidation outdates is not dated after the revalidation: the
\* order of the three requests sees to it.  There is one exception: metadata
\* without a date, whose hit is dated when it is read (gcs-cache.ts:69-71).
DateNotTooLate ==
    \A g \in Gets :
        get[g].at = "hit" => get[g].updated <= get[g].content \/ get[g].updated = Now
=============================================================================
