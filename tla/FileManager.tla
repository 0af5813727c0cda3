---------------------------- MODULE FileManager -----------------------------
(***************************************************************************)
(* The file manager's upload (app/actions.ts) and its list of files        *)
(* (app/page.tsx).  An upload writes the object, the row and then          *)
(* revalidates the list, which is a query cached under the tag "files" for *)
(* 60 seconds.  A file's content is the upload that wrote it.              *)
(***************************************************************************)
EXTENDS Naturals

CONSTANTS
    Uploads,        \* the calls of uploadFile
    NameOf,         \* the name of each upload's file
    Readers,        \* the requests for the page
    MaxTroubles,    \* bound: failures, and invalidations by hand
    NoFile

VARIABLES
    fileTable,   \* table files: by name the upload that wrote the row, and that of its path
    inStorage,   \* the bucket "assets": by name the upload whose content is there
    upload,      \* where each upload is
    spoiled,     \* history: the names whose uploads have overlapped or were cut short
    cached,      \* the entry of getFiles: the rows, and whether they count as fresh
    reading,     \* the query each request waits for
    listed,      \* what the last answered request has shown
    troubles     \* counter for the bound

fileVars == <<fileTable, inStorage, upload, spoiled, cached, reading, listed, troubles>>

Names == {NameOf[u] : u \in Uploads}
NoRow == [content |-> NoFile, path |-> NoFile]
NoRows == [name \in Names |-> NoRow]

\* The list of the empty table was cached by an earlier request and has aged.
FileInit ==
    /\ fileTable = NoRows /\ inStorage = [name \in Names |-> NoFile]
    /\ upload = [u \in Uploads |-> "none"]
    /\ spoiled = {}
    /\ cached = [rows |-> NoRows, fresh |-> FALSE]
    /\ reading = [r \in Readers |-> [at |-> "none", rows |-> NoRows]]
    /\ listed = NoRows
    /\ troubles = 0

Trouble == troubles < MaxTroubles /\ troubles' = troubles + 1

UploadStep(u, from, to) ==
    /\ upload[u] = from
    /\ upload' = [upload EXCEPT ![u] = to]
    /\ UNCHANGED <<reading, listed>>

\* The stages at which an upload has work to do that is not done yet.
Writing(u) == upload[u] \in {"object", "row with path", "row"}

Spoil(u) == spoiled' = spoiled \cup {NameOf[u]}

Submit(u) ==
    /\ UploadStep(u, "none", "object")
    /\ IF \E v \in Uploads : NameOf[v] = NameOf[u] /\ Writing(v) THEN Spoil(u) ELSE UNCHANGED spoiled
    /\ UNCHANGED <<fileTable, inStorage, cached, troubles>>

\* putObject
PutObject(u) ==
    /\ UploadStep(u, "object", "row with path")
    /\ inStorage' = [inStorage EXCEPT ![NameOf[u]] = u]
    /\ UNCHANGED <<fileTable, spoiled, cached, troubles>>

\* The storage is unavailable, or its answer is lost: the row is written without a path.
PutObjectFails(u) ==
    /\ UploadStep(u, "object", "row") /\ Trouble
    /\ inStorage' \in {inStorage, [inStorage EXCEPT ![NameOf[u]] = u]}
    /\ Spoil(u)
    /\ UNCHANGED <<fileTable, cached>>

\* Mutant of Upserted: ON CONFLICT (name) DO NOTHING.
UpsertedOnce(u, path) ==
    IF fileTable[NameOf[u]] = NoRow THEN [content |-> u, path |-> path] ELSE fileTable[NameOf[u]]

\* INSERT ... ON CONFLICT (name) DO UPDATE, which leaves the path of the first upload.
Upserted(u, path) ==
    IF fileTable[NameOf[u]] = NoRow THEN [content |-> u, path |-> path]
    ELSE [fileTable[NameOf[u]] EXCEPT !.content = u]

UpsertRow(u) ==
    /\ \/ UploadStep(u, "row with path", "revalidate")
          /\ fileTable' = [fileTable EXCEPT ![NameOf[u]] = Upserted(u, u)]
       \/ UploadStep(u, "row", "revalidate")
          /\ fileTable' = [fileTable EXCEPT ![NameOf[u]] = Upserted(u, NoFile)]
    /\ UNCHANGED <<inStorage, spoiled, cached, troubles>>

\* The query fails, or the pod is killed: what was done stays.
UploadFails(u) ==
    /\ \E place \in {"object", "row with path", "row", "revalidate"} :
         /\ UploadStep(u, place, "failed")
         /\ IF place \in {"row with path", "row"} THEN Spoil(u) ELSE UNCHANGED spoiled
    /\ Trouble
    /\ UNCHANGED <<fileTable, inStorage, cached>>

\* revalidateTag("files") and revalidatePath("/"): what is cached is fresh no more.
RevalidateFiles(u) ==
    /\ UploadStep(u, "revalidate", "done")
    /\ cached' = [cached EXCEPT !.fresh = FALSE]
    /\ UNCHANGED <<fileTable, inStorage, spoiled, troubles>>

\* /api/cache/invalidate, called with the tag "files".
InvalidateFiles ==
    /\ Trouble
    /\ cached' = [cached EXCEPT !.fresh = FALSE]
    /\ UNCHANGED <<fileTable, inStorage, upload, spoiled, reading, listed>>

----------------------------------------------------------------------------
(* The page *)

\* A fresh entry is the answer.  An old one is the answer too, and is queried anew.
ReadFiles(r) ==
    /\ reading[r].at = "none"
    /\ listed' = cached.rows
    /\ reading' = IF cached.fresh THEN reading ELSE [reading EXCEPT ![r].at = "query"]
    /\ UNCHANGED <<fileTable, inStorage, upload, spoiled, cached, troubles>>

\* The query of getFiles; a failing one is an empty list.
QueryFiles(r) ==
    /\ reading[r].at = "query"
    /\ \/ reading' = [reading EXCEPT ![r] = [at |-> "answer", rows |-> fileTable]]
          /\ UNCHANGED troubles
       \/ reading' = [reading EXCEPT ![r] = [at |-> "answer", rows |-> NoRows]] /\ Trouble
    /\ UNCHANGED <<fileTable, inStorage, upload, spoiled, cached, listed>>

\* unstable_cache keeps whatever the function has returned.
CacheFiles(r) ==
    /\ reading[r].at = "answer"
    /\ cached' = [rows |-> reading[r].rows, fresh |-> TRUE]
    /\ reading' = [reading EXCEPT ![r] = [at |-> "none", rows |-> NoRows]]
    /\ UNCHANGED <<fileTable, inStorage, upload, spoiled, listed, troubles>>

\* Mutant of Aged: an entry without the option revalidate never ages.
AgedNever == cached

\* revalidate: 60
Aged == [cached EXCEPT !.fresh = FALSE]

SixtySecondsPass ==
    /\ cached' = Aged
    /\ UNCHANGED <<fileTable, inStorage, upload, spoiled, reading, listed, troubles>>

FileNext ==
    \/ \E u \in Uploads : \/ Submit(u) \/ PutObject(u) \/ PutObjectFails(u) \/ UpsertRow(u)
                          \/ UploadFails(u) \/ RevalidateFiles(u)
    \/ \E r \in Readers : ReadFiles(r) \/ QueryFiles(r) \/ CacheFiles(r)
    \/ InvalidateFiles \/ SixtySecondsPass

\* The page is asked for again and again, its queries are answered, and time passes.
FileFairness ==
    /\ \A r \in Readers : WF_fileVars(ReadFiles(r)) /\ WF_fileVars(QueryFiles(r) \/ CacheFiles(r))
    /\ WF_fileVars(SixtySecondsPass)

FileSpec == FileInit /\ [][FileNext]_fileVars /\ FileFairness

----------------------------------------------------------------------------
\* A row describes the object of its name, and has a path if there is an object:
\* they disagree only while an upload is at work, or after uploads of that name
\* have overlapped, or one was cut short or could not store its object.  Such a
\* row may stay for good: no later upload gives it a path.
RowDescribesObject ==
    \A name \in Names :
        \/ /\ fileTable[name].content = inStorage[name]
           /\ inStorage[name] # NoFile => fileTable[name].path # NoFile
        \/ name \in spoiled
        \/ \E u \in Uploads : NameOf[u] = name /\ Writing(u)

\* Whatever an upload leaves undone, and whatever the list has cached meanwhile, also
\* the empty list of a failing query, the page comes to show what the table has, and
\* every path in it leads to an object.
FilesGetListed ==
    <>[](/\ listed = fileTable
         /\ \A name \in Names : listed[name].path # NoFile => inStorage[name] # NoFile)
=============================================================================
