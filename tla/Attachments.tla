----------------------------- MODULE Attachments -----------------------------
(***************************************************************************)
(* Attached files: a row of the database and a file of the storage, which  *)
(* share no transaction (api/attachments.py, services/storage.py).         *)
(*                                                                         *)
(* An upload stores the file, then commits the row; a deletion has the     *)
(* storage delete the file, then commits the removal of the row.  Any step *)
(* may fail and then ends the request with an error; nothing done to the   *)
(* storage is undone.  A crash of the server is the failure of every       *)
(* request.  Every upload has a name of its own.  Who may upload, read and *)
(* delete, and the limits on size and type, are left out.  Rows of         *)
(* temporary uploads are like the others: nothing in the code removes them *)
(* or attaches them to a task.                                             *)
(*                                                                         *)
(* The storage is LocalStorage("./uploads"), get_storage's only outcome:   *)
(* config.py has neither of the settings it asks for.  save returns the    *)
(* path with the upload directory in front, which the row keeps; delete    *)
(* and the download put the directory in front of that path again.         *)
(*                                                                         *)
(* abandoned and deleted are history variables: the attachments whose      *)
(* upload failed after it had begun to store, and those whose deletion was *)
(* answered.                                                               *)
(***************************************************************************)
EXTENDS Naturals

CONSTANTS File,        \* attachments
          Request      \* request slots

VARIABLES row,         \* the attachments with a committed row
          stored,      \* the paths at which there is a file
          pc,          \* where the handler of a request is
          file,        \* the attachment it is about
          abandoned,   \* history: see above
          deleted      \* history: see above

vars == <<row, stored, pc, file, abandoned, deleted>>

\* A path: the name of an upload behind so many times the upload directory.
Path == [name : File, dirs : 0 .. 2]

\* UPLOAD_DIR / path
InUploads(path) == [name |-> path.name, dirs |-> path.dirs + 1]

\* attachments.storage_path: what save returned.
StoragePath(f) == InUploads([name |-> f, dirs |-> 0])

Step == {"idle", "save", "insert", "remove", "delete", "look"}

TypeOK ==
    /\ row \subseteq File /\ stored \subseteq Path
    /\ pc \in [Request -> Step]
    /\ file \in [Request -> File]
    /\ abandoned \subseteq File /\ deleted \subseteq File

Init ==
    /\ row = {} /\ stored = {}
    /\ pc = [r \in Request |-> "idle"]
    /\ file = [r \in Request |-> CHOOSE f \in File : TRUE]
    /\ abandoned = {} /\ deleted = {}

-----------------------------------------------------------------------------
GoTo(r, step) == pc' = [pc EXCEPT ![r] = step] /\ UNCHANGED file

Begin(r, step, f) ==
    /\ pc[r] = "idle"
    /\ pc' = [pc EXCEPT ![r] = step]
    /\ file' = [file EXCEPT ![r] = f]
    /\ UNCHANGED <<row, stored, abandoned, deleted>>

At(R, step) == {file[r] : r \in {q \in R : pc[q] = step}}

\* The requests R fail: a row whose insert or delete is not committed stays as it
\* was; a storage that was at work may have stored, or removed, a file.
Broken(R) ==
    \E S \in SUBSET At(R, "save"), D \in SUBSET At(R, "remove") :
       /\ stored' = (stored \cup {StoragePath(f) : f \in S}) \ {InUploads(StoragePath(f)) : f \in D}
       /\ abandoned' = abandoned \cup At(R, "save") \cup At(R, "insert")
       /\ pc' = [r \in Request |-> IF r \in R THEN "idle" ELSE pc[r]]
       /\ UNCHANGED <<row, file, deleted>>

-----------------------------------------------------------------------------
\* POST of a file, to a task or as a temporary one; its name is a new one.
BeginUpload(r, f) ==
    /\ f \notin row \cup abandoned \cup deleted
    /\ \A q \in Request : pc[q] # "idle" => file[q] # f
    /\ Begin(r, "save", f)

\* Mutant: an error of the storage is logged and passed over.
SaveAnyway(r) ==
    /\ pc[r] = "save"
    /\ stored' \in {stored, stored \cup {StoragePath(file[r])}}
    /\ GoTo(r, "insert")
    /\ UNCHANGED <<row, abandoned, deleted>>

\* storage.save
Save(r) ==
    /\ pc[r] = "save"
    /\ stored' = stored \cup {StoragePath(file[r])}
    /\ GoTo(r, "insert")
    /\ UNCHANGED <<row, abandoned, deleted>>

\* The row is inserted and committed.
Insert(r) ==
    /\ pc[r] = "insert"
    /\ row' = row \cup {file[r]}
    /\ GoTo(r, "idle")
    /\ UNCHANGED <<stored, abandoned, deleted>>

\* DELETE reads the row (else 404).
BeginDelete(r, f) == f \in row /\ Begin(r, "remove", f)

\* storage.delete; a file that is not there is no error.
Remove(r) ==
    /\ pc[r] = "remove"
    /\ stored' = stored \ {InUploads(StoragePath(file[r]))}
    /\ GoTo(r, "delete")
    /\ UNCHANGED <<row, abandoned, deleted>>

\* The row is deleted and the deletion committed, also a second time.
Delete(r) ==
    /\ pc[r] = "delete"
    /\ row' = row \ {file[r]}
    /\ deleted' = deleted \cup {file[r]}
    /\ GoTo(r, "idle")
    /\ UNCHANGED <<stored, abandoned>>

\* GET reads the row, or answers 404, ...
BeginDownload(r, f) ==
    IF f \in row THEN Begin(r, "look", f) ELSE pc[r] = "idle" /\ UNCHANGED vars

\* ... looks for the file at InUploads(StoragePath) and sends it, or answers 404, too;
\* by OrphansAreKnown there is never one.
Look(r) ==
    /\ pc[r] = "look"
    /\ GoTo(r, "idle")
    /\ UNCHANGED <<row, stored, abandoned, deleted>>

-----------------------------------------------------------------------------
\* An error of the storage or of the database: 500.
Fail(r) == pc[r] \in {"save", "insert", "remove", "delete"} /\ Broken({r})

Crash == (\E r \in Request : pc[r] # "idle") /\ Broken(Request)

Next ==
    \/ Crash
    \/ \E r \in Request :
          \/ \E f \in File : BeginUpload(r, f) \/ BeginDelete(r, f) \/ BeginDownload(r, f)
          \/ Save(r) \/ Insert(r) \/ Remove(r) \/ Delete(r) \/ Look(r) \/ Fail(r)

Spec == Init /\ [][Next]_vars

-----------------------------------------------------------------------------
\* A row never names a file that is not there, whatever fails or crashes between
\* the two stores: not a deletion that ends between them, and not one that
\* overlaps with another.
RowsHaveFiles == \A f \in row : StoragePath(f) \in stored

\* A file is there without a row only while it is being uploaded, after an upload
\* that failed, or after a deletion; and nothing else lies in the storage, at the paths
\* where deletions and downloads look nothing at all.
OrphansAreKnown ==
    stored \subseteq {StoragePath(f) : f \in row \cup At(Request, "insert") \cup abandoned \cup deleted}

\* The two stores agree but for what is under way, what a failure has cut off,
\* and what deletions leave behind.
RowsAndFilesAgree == RowsHaveFiles /\ OrphansAreKnown

\* "로컬 파일을 삭제합니다." (services/storage.py:88): an attachment whose deletion was
\* answered has no file any more.
DeletedWithFile == \A f \in deleted : StoragePath(f) \notin stored
=============================================================================
