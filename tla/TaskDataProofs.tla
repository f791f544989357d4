--------------------------- MODULE TaskDataProofs ---------------------------
(***************************************************************************)
(* For any users, comments, files, fields and requests: everybody a        *)
(* comment mentions watches the task, and no row lacks its file, which     *)
(* stays without a row where an upload failed or an attachment was         *)
(* deleted; tags are those of the texts, an update tells and keeps what    *)
(* was sent and a label that was found is put on the task, unless another  *)
(* request came between.  For any number of tasks and any size of page, a  *)
(* walk through the list has neither gaps nor repetitions, a page of a     *)
(* search holds what it should, and the dashboard goes back to no older    *)
(* state unless a result came late.                                        *)
(***************************************************************************)
EXTENDS MC_TaskData, FiniteSetTheorems, SequenceTheorems, TLAPS

-----------------------------------------------------------------------------
\* Comments and watchers.

\* Whom a comment mentions watches already, or is about to be inserted with it.
MentionsCarried ==
    \A r \in Request : cStep[r] = "commit" => text[r] \subseteq watchers \cup missing[r]

CInv == C!TypeOK /\ MentionsCarried /\ MentionedWatch /\ C!LostOnlyIfOvertaken

LEMMA InitCInv == C!Init => CInv
<1> SUFFICES ASSUME C!Init PROVE CInv
  OBVIOUS
<1> USE DEF C!Init, C!Written
<1>1. C!TypeOK
  BY ValuesAssumption DEF C!TypeOK
<1>2. MentionsCarried /\ C!LostOnlyIfOvertaken
  BY DEF MentionsCarried, C!LostOnlyIfOvertaken
<1>3. MentionedWatch
  BY DEF MentionedWatch, C!MentionedWatch, C!There
<1> QED
  BY <1>1, <1>2, <1>3 DEF CInv

LEMMA BeginCreateCInv ==
    ASSUME CInv, NEW r \in Request, NEW c \in Comment, NEW t \in SUBSET User, C!BeginCreate(r, c, t)
    PROVE  CInv'
<1> USE DEF C!BeginCreate, C!Start, C!rows, C!Written
<1>1. C!TypeOK'
  BY DEF CInv, C!TypeOK
<1>2. MentionsCarried'
  BY DEF CInv, C!TypeOK, MentionsCarried
<1>3. MentionedWatch'
  BY DEF CInv, C!TypeOK, MentionsCarried, MentionedWatch, C!MentionedWatch, C!There
<1>4. C!LostOnlyIfOvertaken'
  BY DEF CInv, C!TypeOK, C!LostOnlyIfOvertaken
<1> QED
  BY <1>1, <1>2, <1>3, <1>4 DEF CInv

LEMMA BeginUpdateCInv ==
    ASSUME CInv, NEW r \in Request, NEW c \in Comment, NEW t \in SUBSET User, C!BeginUpdate(r, c, t)
    PROVE  CInv'
<1> USE DEF C!BeginUpdate, C!Start, C!rows, C!Written
<1>1. C!TypeOK'
  BY DEF CInv, C!TypeOK
<1>2. MentionsCarried'
  BY DEF CInv, C!TypeOK, MentionsCarried
<1>3. MentionedWatch'
  BY DEF CInv, C!TypeOK, MentionsCarried, MentionedWatch, C!MentionedWatch, C!There
<1>4. C!LostOnlyIfOvertaken'
  BY DEF CInv, C!TypeOK, C!LostOnlyIfOvertaken
<1> QED
  BY <1>1, <1>2, <1>3, <1>4 DEF CInv

LEMMA BeginDeleteCInv ==
    ASSUME CInv, NEW r \in Request, NEW c \in Comment, C!BeginDelete(r, c)
    PROVE  CInv'
<1> USE DEF C!BeginDelete, C!Start, C!rows, C!Written
<1>1. C!TypeOK'
  BY DEF CInv, C!TypeOK
<1>2. MentionsCarried'
  BY DEF CInv, C!TypeOK, MentionsCarried
<1>3. MentionedWatch'
  BY DEF CInv, C!TypeOK, MentionsCarried, MentionedWatch, C!MentionedWatch, C!There
<1>4. C!LostOnlyIfOvertaken'
  BY DEF CInv, C!TypeOK, C!LostOnlyIfOvertaken
<1> QED
  BY <1>1, <1>2, <1>3, <1>4 DEF CInv

LEMMA FlushCreateCInv ==
    ASSUME CInv, NEW r \in Request, C!FlushCreate(r)
    PROVE  CInv'
<1> USE DEF C!FlushCreate, C!rows, C!Written
<1>1. C!TypeOK'
  BY DEF CInv, C!TypeOK
<1>2. MentionsCarried'
  BY DEF CInv, C!TypeOK, MentionsCarried
<1>3. MentionedWatch'
  BY DEF CInv, C!TypeOK, MentionsCarried, MentionedWatch, C!MentionedWatch, C!There
<1>4. C!LostOnlyIfOvertaken'
  BY DEF CInv, C!TypeOK, C!LostOnlyIfOvertaken
<1> QED
  BY <1>1, <1>2, <1>3, <1>4 DEF CInv

LEMMA FlushUpdateCInv ==
    ASSUME CInv, NEW r \in Request, C!FlushUpdate(r)
    PROVE  CInv'
<1> USE DEF C!FlushUpdate, C!End, C!rows, C!Written
<1>1. C!TypeOK'
  BY DEF CInv, C!TypeOK
<1>2. MentionsCarried'
  BY DEF CInv, C!TypeOK, MentionsCarried
<1>3. MentionedWatch'
  BY DEF CInv, C!TypeOK, MentionsCarried, MentionedWatch, C!MentionedWatch, C!There
<1>4. C!LostOnlyIfOvertaken'
  BY DEF CInv, C!TypeOK, C!LostOnlyIfOvertaken
<1> QED
  BY <1>1, <1>2, <1>3, <1>4 DEF CInv

LEMMA ReadWatchersCInv ==
    ASSUME CInv, NEW r \in Request, C!ReadWatchers(r)
    PROVE  CInv'
<1> USE DEF C!ReadWatchers, C!rows, C!Written
<1>1. C!TypeOK'
  BY DEF CInv, C!TypeOK
<1>2. MentionsCarried'
  BY DEF CInv, C!TypeOK, MentionsCarried
<1>3. MentionedWatch'
  BY DEF CInv, C!TypeOK, MentionsCarried, MentionedWatch, C!MentionedWatch, C!There
<1>4. C!LostOnlyIfOvertaken'
  BY DEF CInv, C!TypeOK, C!LostOnlyIfOvertaken
<1> QED
  BY <1>1, <1>2, <1>3, <1>4 DEF CInv

LEMMA CommitCInv ==
    ASSUME CInv, NEW r \in Request, C!Commit(r)
    PROVE  CInv'
<1> USE DEF C!Commit, C!End, C!rows, C!Merge, C!Written
<1>1. C!TypeOK'
  <2>1. content' \in [Comment -> (SUBSET User) \cup {NoComment}]
    <3>1. comment[r] \in Comment /\ text[r] \in SUBSET User
      BY DEF CInv, C!TypeOK
    <3>2. content' = content \/ content' = [content EXCEPT ![comment[r]] = text[r]]
      OBVIOUS
    <3> QED
      BY <3>1, <3>2 DEF CInv, C!TypeOK
  <2>2. watchers' \subseteq User /\ missing' \in [Request -> SUBSET User]
    BY DEF CInv, C!TypeOK
  <2> QED
    BY <2>1, <2>2 DEF CInv, C!TypeOK
<1>2. MentionsCarried'
  BY DEF CInv, C!TypeOK, MentionsCarried
<1>3. MentionedWatch'
  BY DEF CInv, C!TypeOK, MentionsCarried, MentionedWatch, C!MentionedWatch, C!There
<1>4. C!LostOnlyIfOvertaken'
  <2> SUFFICES ASSUME NEW q \in Request, cStep'[q] = "commit", missing'[q] \cap watchers' # {}
               PROVE  cOver'[q]
    BY DEF C!LostOnlyIfOvertaken
  <2>1. q # r /\ cStep[q] = "commit" /\ missing'[q] = missing[q]
    BY DEF CInv, C!TypeOK
  <2> QED
    BY <2>1 DEF CInv, C!LostOnlyIfOvertaken
<1> QED
  BY <1>1, <1>2, <1>3, <1>4 DEF CInv

LEMMA DeleteCInv ==
    ASSUME CInv, NEW r \in Request, C!Delete(r)
    PROVE  CInv'
<1> USE DEF C!Delete, C!End, C!Written
<1>1. C!TypeOK'
  BY DEF CInv, C!TypeOK
<1>2. MentionsCarried'
  BY DEF CInv, C!TypeOK, MentionsCarried
<1>3. MentionedWatch'
  BY DEF CInv, C!TypeOK, MentionsCarried, MentionedWatch, C!MentionedWatch, C!There
<1>4. C!LostOnlyIfOvertaken'
  BY DEF CInv, C!TypeOK, C!LostOnlyIfOvertaken
<1> QED
  BY <1>1, <1>2, <1>3, <1>4 DEF CInv

LEMMA NextCInv == CInv /\ [C!Next]_(C!vars) => CInv'
<1>1. CInv /\ UNCHANGED C!vars => CInv'
  BY DEF CInv, C!TypeOK, MentionsCarried, MentionedWatch, C!MentionedWatch, C!There,
         C!LostOnlyIfOvertaken, C!vars, C!rows, C!locals
<1> SUFFICES ASSUME CInv, C!Next PROVE CInv'
  BY <1>1
<1> QED
  BY BeginCreateCInv, BeginUpdateCInv, BeginDeleteCInv, FlushCreateCInv, FlushUpdateCInv,
     ReadWatchersCInv, CommitCInv, DeleteCInv DEF C!Next

LEMMA CInvariance == C!Spec => []CInv
  BY InitCInv, NextCInv, PTL DEF C!Spec

\* Type correctness of comments and watchers (services/comment_service.py).
THEOREM CommentsTypeCorrect == C!Spec => []C!TypeOK
<1>1. CInv => C!TypeOK
  BY DEF CInv
<1> QED
  BY <1>1, CInvariance, PTL

\* Everybody a comment mentions watches its task, whatever overlaps
\* (services/comment_service.py: add_watchers).
THEOREM MentionedUsersWatch == C!Spec => []MentionedWatch
<1>1. CInv => MentionedWatch
  BY DEF CInv
<1> QED
  BY <1>1, CInvariance, PTL

\* A comment is lost to UNIQUE (task_id, user_id) only if another has brought a
\* watcher since it read them (services/comment_service.py: add_watchers).
THEOREM LossesAreOvertakings == C!Spec => []C!LostOnlyIfOvertaken
<1>1. CInv => C!LostOnlyIfOvertaken
  BY DEF CInv
<1> QED
  BY <1>1, CInvariance, PTL

-----------------------------------------------------------------------------
\* Attachments: a row of the database and a file of the storage.

\* The paths of two files differ, and the path that is deleted is none of them.
LEMMA PathsApart ==
    \A f, g \in File :
       /\ A!StoragePath(f) \in A!Path
       /\ A!StoragePath(f) = A!StoragePath(g) => f = g
       /\ A!InUploads(A!StoragePath(f)) # A!StoragePath(g)
<1> TAKE f, g \in File
<1>1. A!StoragePath(f) = [name |-> f, dirs |-> 1] /\ A!StoragePath(g) = [name |-> g, dirs |-> 1]
  BY DEF A!StoragePath, A!InUploads
<1>2. A!InUploads(A!StoragePath(f)).dirs = 2
  BY <1>1 DEF A!InUploads
<1> QED
  BY <1>1, <1>2 DEF A!Path

\* The order of the two stores: a row comes after its file.
FileBeforeRow == \A r \in Request : aStep[r] = "insert" => A!StoragePath(file[r]) \in stored

AInv == A!TypeOK /\ FileBeforeRow /\ A!RowsHaveFiles /\ A!OrphansAreKnown

LEMMA InitAInv == A!Init => AInv
<1> SUFFICES ASSUME A!Init PROVE AInv
  OBVIOUS
<1> USE DEF A!Init
<1>1. A!TypeOK
  BY ValuesAssumption DEF A!TypeOK, A!Step
<1>2. FileBeforeRow /\ A!RowsHaveFiles /\ A!OrphansAreKnown
  BY DEF FileBeforeRow, A!RowsHaveFiles, A!OrphansAreKnown
<1> QED
  BY <1>1, <1>2 DEF AInv

LEMMA BeginUploadAInv ==
    ASSUME AInv, NEW r \in Request, NEW f \in File, A!BeginUpload(r, f)
    PROVE  AInv'
<1> USE DEF A!BeginUpload, A!Begin
<1>1. A!TypeOK'
  BY PathsApart DEF AInv, A!TypeOK, A!Step
<1>2. FileBeforeRow'
  BY PathsApart DEF AInv, A!TypeOK, FileBeforeRow
<1>3. A!RowsHaveFiles'
  BY PathsApart DEF AInv, A!TypeOK, FileBeforeRow, A!RowsHaveFiles
<1>4. A!OrphansAreKnown'
  BY DEF AInv, A!TypeOK, A!OrphansAreKnown, A!At
<1> QED
  BY <1>1, <1>2, <1>3, <1>4 DEF AInv

LEMMA BeginDeleteAInv ==
    ASSUME AInv, NEW r \in Request, NEW f \in File, A!BeginDelete(r, f)
    PROVE  AInv'
<1> USE DEF A!BeginDelete, A!Begin
<1>1. A!TypeOK'
  BY PathsApart DEF AInv, A!TypeOK, A!Step
<1>2. FileBeforeRow'
  BY PathsApart DEF AInv, A!TypeOK, FileBeforeRow
<1>3. A!RowsHaveFiles'
  BY PathsApart DEF AInv, A!TypeOK, FileBeforeRow, A!RowsHaveFiles
<1>4. A!OrphansAreKnown'
  BY DEF AInv, A!TypeOK, A!OrphansAreKnown, A!At
<1> QED
  BY <1>1, <1>2, <1>3, <1>4 DEF AInv

LEMMA BeginDownloadAInv ==
    ASSUME AInv, NEW r \in Request, NEW f \in File, A!BeginDownload(r, f)
    PROVE  AInv'
<1> USE DEF A!BeginDownload, A!Begin, A!vars
<1>1. A!TypeOK'
  BY PathsApart DEF AInv, A!TypeOK, A!Step
<1>2. FileBeforeRow'
  BY PathsApart DEF AInv, A!TypeOK, FileBeforeRow
<1>3. A!RowsHaveFiles'
  BY PathsApart DEF AInv, A!TypeOK, FileBeforeRow, A!RowsHaveFiles
<1>4. A!OrphansAreKnown'
  BY DEF AInv, A!TypeOK, A!OrphansAreKnown, A!At
<1> QED
  BY <1>1, <1>2, <1>3, <1>4 DEF AInv

LEMMA SaveAInv ==
    ASSUME AInv, NEW r \in Request, A!Save(r)
    PROVE  AInv'
<1> USE DEF A!Save, A!GoTo
<1>1. A!TypeOK'
  BY PathsApart DEF AInv, A!TypeOK, A!Step
<1>2. FileBeforeRow'
  BY PathsApart DEF AInv, A!TypeOK, FileBeforeRow
<1>3. A!RowsHaveFiles'
  BY PathsApart DEF AInv, A!TypeOK, FileBeforeRow, A!RowsHaveFiles
<1>4. A!OrphansAreKnown'
  BY DEF AInv, A!TypeOK, A!OrphansAreKnown, A!At
<1> QED
  BY <1>1, <1>2, <1>3, <1>4 DEF AInv

LEMMA InsertAInv ==
    ASSUME AInv, NEW r \in Request, A!Insert(r)
    PROVE  AInv'
<1> USE DEF A!Insert, A!GoTo
<1>1. A!TypeOK'
  BY PathsApart DEF AInv, A!TypeOK, A!Step
<1>2. FileBeforeRow'
  BY PathsApart DEF AInv, A!TypeOK, FileBeforeRow
<1>3. A!RowsHaveFiles'
  BY PathsApart DEF AInv, A!TypeOK, FileBeforeRow, A!RowsHaveFiles
<1>4. A!OrphansAreKnown'
  BY DEF AInv, A!TypeOK, A!OrphansAreKnown, A!At
<1> QED
  BY <1>1, <1>2, <1>3, <1>4 DEF AInv

LEMMA RemoveAInv ==
    ASSUME AInv, NEW r \in Request, A!Remove(r)
    PROVE  AInv'
<1> USE DEF A!Remove, A!GoTo
<1>1. A!TypeOK'
  BY PathsApart DEF AInv, A!TypeOK, A!Step
<1>2. FileBeforeRow'
  BY PathsApart DEF AInv, A!TypeOK, FileBeforeRow
<1>3. A!RowsHaveFiles'
  BY PathsApart DEF AInv, A!TypeOK, FileBeforeRow, A!RowsHaveFiles
<1>4. A!OrphansAreKnown'
  BY DEF AInv, A!TypeOK, A!OrphansAreKnown, A!At
<1> QED
  BY <1>1, <1>2, <1>3, <1>4 DEF AInv

LEMMA DeleteAInv ==
    ASSUME AInv, NEW r \in Request, A!Delete(r)
    PROVE  AInv'
<1> USE DEF A!Delete, A!GoTo
<1>1. A!TypeOK'
  BY PathsApart DEF AInv, A!TypeOK, A!Step
<1>2. FileBeforeRow'
  BY PathsApart DEF AInv, A!TypeOK, FileBeforeRow
<1>3. A!RowsHaveFiles'
  BY PathsApart DEF AInv, A!TypeOK, FileBeforeRow, A!RowsHaveFiles
<1>4. A!OrphansAreKnown'
  BY DEF AInv, A!TypeOK, A!OrphansAreKnown, A!At
<1> QED
  BY <1>1, <1>2, <1>3, <1>4 DEF AInv

LEMMA LookAInv ==
    ASSUME AInv, NEW r \in Request, A!Look(r)
    PROVE  AInv'
<1> USE DEF A!Look, A!GoTo
<1>1. A!TypeOK'
  BY PathsApart DEF AInv, A!TypeOK, A!Step
<1>2. FileBeforeRow'
  BY PathsApart DEF AInv, A!TypeOK, FileBeforeRow
<1>3. A!RowsHaveFiles'
  BY PathsApart DEF AInv, A!TypeOK, FileBeforeRow, A!RowsHaveFiles
<1>4. A!OrphansAreKnown'
  BY DEF AInv, A!TypeOK, A!OrphansAreKnown, A!At
<1> QED
  BY <1>1, <1>2, <1>3, <1>4 DEF AInv

LEMMA BrokenAInv ==
    ASSUME AInv, NEW R \in SUBSET Request, A!Broken(R)
    PROVE  AInv'
<1> USE DEF A!Broken
<1>0. A!At(R, "save") \subseteq File /\ A!At(R, "remove") \subseteq File /\ A!At(R, "insert") \subseteq File
  BY DEF AInv, A!TypeOK, A!At
<1>a. PICK Saved \in SUBSET A!At(R, "save"), Gone \in SUBSET A!At(R, "remove") :
         stored' = (stored \cup {A!StoragePath(f) : f \in Saved}) \ {A!InUploads(A!StoragePath(f)) : f \in Gone}
  OBVIOUS
<1>1. A!TypeOK'
  <2>1. aStep' \in [Request -> A!Step]
    <3>1. \A r \in Request : aStep[r] \in A!Step
      BY DEF AInv, A!TypeOK
    <3> QED
      BY <3>1 DEF A!Step
  <2>2. file' \in [Request -> File]
    BY DEF AInv, A!TypeOK
  <2>3. stored' \subseteq A!Path
    BY <1>0, <1>a, PathsApart DEF AInv, A!TypeOK
  <2>4. attached' \subseteq File /\ abandoned' \subseteq File /\ deleted' \subseteq File
    BY <1>0 DEF AInv, A!TypeOK
  <2> QED
    BY <2>1, <2>2, <2>3, <2>4 DEF A!TypeOK
<1>b. \A f \in File : A!StoragePath(f) \in stored => A!StoragePath(f) \in stored'
  BY <1>0, <1>a, PathsApart
<1>2. FileBeforeRow'
  BY <1>b DEF AInv, A!TypeOK, FileBeforeRow
<1>3. A!RowsHaveFiles'
  BY <1>b DEF AInv, A!TypeOK, A!RowsHaveFiles
<1>4. A!OrphansAreKnown'
  <2>1. stored' \subseteq stored \cup {A!StoragePath(f) : f \in A!At(R, "save")}
    BY <1>a
  <2>2. A!At(Request, "insert") \subseteq A!At(Request, "insert")' \cup A!At(R, "insert")
    BY DEF AInv, A!TypeOK, A!At
  <2>3. attached' = attached /\ deleted' = deleted
        /\ abandoned' = abandoned \cup A!At(R, "save") \cup A!At(R, "insert")
    OBVIOUS
  <2> DEFINE Known == attached \cup A!At(Request, "insert") \cup abandoned \cup deleted
             KnownThen == attached' \cup A!At(Request, "insert")' \cup abandoned' \cup deleted'
  <2>4. Known \cup A!At(R, "save") \subseteq KnownThen
    BY <2>2, <2>3
  <2>5. stored \subseteq {A!StoragePath(f) : f \in Known}
    BY DEF AInv, A!OrphansAreKnown
  <2>6. stored' \subseteq {A!StoragePath(f) : f \in KnownThen}
    <3> HIDE DEF Known, KnownThen
    <3> QED
      BY <2>1, <2>4, <2>5
  <2> QED
    BY <2>6 DEF A!OrphansAreKnown
<1> QED
  BY <1>1, <1>2, <1>3, <1>4 DEF AInv

LEMMA NextAInv == AInv /\ [A!Next]_(A!vars) => AInv'
<1>1. AInv /\ UNCHANGED A!vars => AInv'
  BY DEF AInv, A!TypeOK, FileBeforeRow, A!RowsHaveFiles, A!OrphansAreKnown, A!At, A!vars
<1> SUFFICES ASSUME AInv, A!Next PROVE AInv'
  BY <1>1
<1>2. CASE A!Crash
  BY <1>2, BrokenAInv DEF A!Crash
<1>3. ASSUME NEW r \in Request, A!Fail(r) PROVE AInv'
  BY <1>3, BrokenAInv DEF A!Fail
<1> QED
  BY <1>2, <1>3, BeginUploadAInv, BeginDeleteAInv, BeginDownloadAInv, SaveAInv, InsertAInv,
     RemoveAInv, DeleteAInv, LookAInv DEF A!Next

LEMMA AInvariance == A!Spec => []AInv
  BY InitAInv, NextAInv, PTL DEF A!Spec

\* Type correctness of the attachments: their rows, the files and the requests
\* (api/attachments.py).
THEOREM AttachmentsTypeCorrect == A!Spec => []A!TypeOK
<1>1. AInv => A!TypeOK
  BY DEF AInv
<1> QED
  BY <1>1, AInvariance, PTL

\* A row never lacks its file, whatever fails; a file is without a row only while
\* it is uploaded, after an upload that failed, or after any deletion, for
\* delete_attachment asks the storage to remove another path than save returned
\* (api/attachments.py, services/storage.py).
THEOREM FilesAndRowsAgree == A!Spec => []RowsAndFilesAgree
<1>1. AInv => RowsAndFilesAgree
  BY DEF AInv, RowsAndFilesAgree, A!RowsAndFilesAgree
<1> QED
  BY <1>1, AInvariance, PTL

-----------------------------------------------------------------------------
\* The fields of a task and its tags.

\* A body sets fields of a task to values they may have.
LEMMA BodyFields ==
    ASSUME NEW d \in Body
    PROVE  DOMAIN d \subseteq Field /\ \A f \in DOMAIN d : d[f] \in Value(f)
<1>1. PICK Q \in SUBSET Field, t \in Task : d = [f \in Q |-> t[f]]
  BY DEF Body
<1>2. \A f \in Field : t[f] \in Value(f)
  BY DEF Task, Field, Value
<1> QED
  BY <1>1, <1>2

LEMMA EmptyBody == <<>> \in Body
<1>1. PICK t \in Task : TRUE
  <2>1. NoTask \in Task
    BY DEF NoTask, Task, Text
  <2> QED
    BY <2>1
<1>2. Cardinality({}) <= MAX_FIELDS
  BY FS_EmptySet, BoundsAssumption
<1>3. [f \in {} |-> t[f]] = <<>>
  OBVIOUS
<1>4. {} \in {Q \in SUBSET Field : Cardinality(Q) <= MAX_FIELDS}
  BY <1>2
<1>5. [f \in {} |-> t[f]] \in Body
  <2> DEFINE Sets == {Q \in SUBSET Field : Cardinality(Q) <= MAX_FIELDS}
  <2>1. Body = {[f \in Q |-> u[f]] : Q \in Sets, u \in Task}
    BY DEF Body
  <2> HIDE DEF Sets
  <2>2. {} \in Sets
    BY <1>4 DEF Sets
  <2> QED
    BY <1>1, <2>1, <2>2
<1> QED
  BY <1>3, <1>5

\* What a request has loaded is the task, unless another commit overtook it.
CopyFresh == \A r \in Request : pc[r] \in Loaded /\ ~overtaken[r] => copy[r] = row

\* Who got past the check was an editor by the copy.
CheckedCallers ==
    \A r \in Request : pc[r] \in Loaded \ {"permission"} => caller[r] \in Leader \cup {Creator, copy[r].assignee}

\* Tags that come in after a request has deleted those there were overtake it.
FreshOvertakes ==
    \A r \in Request : pc[r] = "commit" /\ Syncs(r) /\ ~overtaken[r] => fresh[r] = {}

\* The tags are those of the copy's texts; they match those of the row only
\* because the copy is the row as long as nothing overtakes.
FInv == TypeOK /\ CopyFresh /\ CheckedCallers /\ FreshOvertakes /\ TagsMatchUnlessPatched

LEMMA InitFInv == Init => FInv
<1> SUFFICES ASSUME Init PROVE FInv
  OBVIOUS
<1>1. TypeOK
  <2>1. row \in Task /\ tags \subseteq Tag
    BY DEF Init, Task, Text
  <2>2. DOMAIN log \subseteq Field /\ \A f \in DOMAIN log : log[f] \in Value(f) \X Value(f)
    BY DEF Init
  <2>3. data \in [Request -> Body]
    BY EmptyBody DEF Init
  <2>4. copy \in [Request -> Task]
    BY DEF Init, NoTask, Task, Text
  <2> QED
    BY <2>1, <2>2, <2>3, <2>4 DEF Init, TypeOK
<1>2. CopyFresh /\ CheckedCallers /\ FreshOvertakes
  BY DEF Init, Loaded, CopyFresh, CheckedCallers, FreshOvertakes
<1>3. TagsMatchUnlessPatched
  BY DEF Init, TagsMatchUnlessPatched
<1> QED
  BY <1>1, <1>2, <1>3 DEF FInv

LEMMA BeginFInv ==
    ASSUME FInv, NEW r \in Request, NEW u \in User, NEW d \in Body, Begin(r, u, d)
    PROVE  FInv'
<1> USE DEF Begin, rows
<1>1. TypeOK'
  BY DEF FInv, TypeOK, Loaded
<1>2. CopyFresh'
  BY DEF FInv, TypeOK, Loaded, CopyFresh
<1>3. CheckedCallers'
  BY DEF FInv, TypeOK, Loaded, CheckedCallers
<1>4. FreshOvertakes'
  BY DEF FInv, TypeOK, Loaded, FreshOvertakes, Syncs
<1>5. TagsMatchUnlessPatched'
  BY DEF FInv, TagsMatchUnlessPatched
<1> QED
  BY <1>1, <1>2, <1>3, <1>4, <1>5 DEF FInv

\* A step of a handler that writes nothing of the task.
LEMMA GoToFInv ==
    ASSUME FInv, NEW r \in Request, NEW step \in Loaded \ {"permission"}, GoTo(r, step),
           pc[r] \in Loaded,
           pc[r] = "permission" => caller[r] \in Leader \cup {Creator, copy[r].assignee},
           step = "commit" => ~Syncs(r)
    PROVE  FInv'
<1> USE DEF GoTo, rows
<1>1. TypeOK'
  BY DEF FInv, TypeOK, Loaded
<1>2. CopyFresh'
  BY DEF FInv, TypeOK, Loaded, CopyFresh
<1>3. CheckedCallers'
  BY DEF FInv, TypeOK, Loaded, CheckedCallers
<1>4. FreshOvertakes'
  BY DEF FInv, TypeOK, Loaded, FreshOvertakes, Syncs
<1>5. TagsMatchUnlessPatched'
  BY DEF FInv, TagsMatchUnlessPatched
<1> QED
  BY <1>1, <1>2, <1>3, <1>4, <1>5 DEF FInv

LEMMA RefuseFInv ==
    ASSUME FInv, NEW r \in Request, Refuse(r)
    PROVE  FInv'
<1> USE DEF Refuse, Reset, rows
<1>1. TypeOK'
  <2>1. data' \in [Request -> Body]
    BY EmptyBody DEF FInv, TypeOK
  <2>2. copy' \in [Request -> Task]
    BY DEF FInv, TypeOK, NoTask, Task, Text
  <2> QED
    BY <2>1, <2>2 DEF FInv, TypeOK, Loaded
<1>2. CopyFresh'
  BY DEF FInv, TypeOK, Loaded, CopyFresh
<1>3. CheckedCallers'
  BY DEF FInv, TypeOK, Loaded, CheckedCallers
<1>4. FreshOvertakes'
  BY DEF FInv, TypeOK, Loaded, FreshOvertakes, Syncs
<1>5. TagsMatchUnlessPatched'
  BY DEF FInv, TagsMatchUnlessPatched
<1> QED
  BY <1>1, <1>2, <1>3, <1>4, <1>5 DEF FInv

LEMMA DeleteTagsFInv ==
    ASSUME FInv, NEW r \in Request, DeleteTags(r)
    PROVE  FInv'
<1> USE DEF DeleteTags, rows
<1>1. TypeOK'
  BY DEF FInv, TypeOK, Loaded
<1>2. CopyFresh'
  BY DEF FInv, TypeOK, Loaded, CopyFresh
<1>3. CheckedCallers'
  BY DEF FInv, TypeOK, Loaded, CheckedCallers
<1>4. FreshOvertakes'
  BY DEF FInv, TypeOK, Loaded, FreshOvertakes, Syncs
<1>5. TagsMatchUnlessPatched'
  BY DEF FInv, TagsMatchUnlessPatched
<1> QED
  BY <1>1, <1>2, <1>3, <1>4, <1>5 DEF FInv

\* What a commit writes: the body and, in the rest, the row; of a fresh copy that
\* is the copy with the body.
LEMMA MergeIsTask ==
    ASSUME FInv, NEW r \in Request
    PROVE  /\ Merge(r) \in Task
           /\ Flushed(r).title \subseteq Tag /\ Flushed(r).description \subseteq Tag
           /\ pc[r] \in Loaded /\ ~overtaken[r] => Merge(r) = Flushed(r)
<1>1. /\ DOMAIN data[r] \subseteq Field /\ \A f \in DOMAIN data[r] : data[r][f] \in Value(f)
      /\ copy[r] \in Task /\ row \in Task
  BY BodyFields DEF FInv, TypeOK
<1>2. \A f \in Field : copy[r][f] \in Value(f) /\ row[f] \in Value(f)
  BY <1>1 DEF Task, Field, Value
<1>3. Merge(r) \in [Field -> UNION {Value(f) : f \in Field}] /\ \A f \in Field : Merge(r)[f] \in Value(f)
  BY <1>1, <1>2 DEF Merge, Written
<1>4. Merge(r) \in Task
  BY <1>3 DEF Task, Field, Value
<1>5. \A f \in Field : Flushed(r)[f] \in Value(f)
  BY <1>1, <1>2 DEF Flushed
<1>6. Flushed(r).title \subseteq Tag /\ Flushed(r).description \subseteq Tag
  BY <1>5 DEF Field, Value, Text
<1>7. ASSUME pc[r] \in Loaded, ~overtaken[r] PROVE Merge(r) = Flushed(r)
  <2>1. copy[r] = row
    BY <1>7 DEF FInv, CopyFresh
  <2> QED
    BY <1>1, <2>1 DEF Merge, Flushed, Written
<1> QED
  BY <1>4, <1>6, <1>7

\* A field whose text is not written keeps it; and so do both unless tags are.
LEMMA TextsStay ==
    ASSUME FInv, NEW r \in Request, ~Syncs(r)
    PROVE  Merge(r).title = row.title /\ Merge(r).description = row.description
<1>1. "title" \notin Written(r) /\ "description" \notin Written(r)
  BY DEF Syncs, Written
<1> QED
  BY <1>1 DEF Merge, Field

LEMMA CommitFInv ==
    ASSUME FInv, NEW r \in Request, Commit(r)
    PROVE  FInv'
<1>1. CASE Conflicts(r)
  BY <1>1, RefuseFInv DEF Commit
<1>2. CASE ~Conflicts(r)
  <2>1. /\ pc[r] = "commit" /\ row' = Merge(r) /\ Reset(r)
        /\ log' = [f \in Written(r) |-> Record(r, f)]
        /\ overtaken' = [q \in Request |-> q # r /\ (overtaken[q] \/ pc[q] \in Loaded)]
    BY <1>2 DEF Commit
  <2>2. /\ tags' \subseteq Tag /\ patched' \in BOOLEAN /\ fresh' \in [Request -> SUBSET Tag]
        /\ tags' = row'.title \cup row'.description \/ patched'
    <3>1. CASE Syncs(r)
      <4>1. /\ tags' = fresh[r] \cup NewTags(r) /\ patched' = overtaken[r]
            /\ fresh' = [q \in Request |-> IF q = r THEN {}
                                           ELSE (fresh[q] \cap fresh[r]) \cup NewTags(r)]
        BY <1>2, <3>1 DEF Commit
      <4>2. NewTags(r) \subseteq Tag /\ fresh \in [Request -> SUBSET Tag] /\ overtaken[r] \in BOOLEAN
        BY MergeIsTask DEF NewTags, FInv, TypeOK
      <4>3. CASE overtaken[r]
        BY <4>1, <4>2, <4>3
      <4>4. CASE ~overtaken[r]
        <5>1. fresh[r] = {}
          BY <2>1, <3>1, <4>4 DEF FInv, FreshOvertakes
        <5>2. row' = Flushed(r)
          BY <2>1, <4>4, MergeIsTask DEF Loaded
        <5> QED
          BY <4>1, <4>2, <5>1, <5>2 DEF NewTags
      <4> QED
        BY <4>2, <4>3, <4>4
    <3>2. CASE ~Syncs(r)
      <4>1. fresh' = [fresh EXCEPT ![r] = {}] /\ tags' = tags /\ patched' = patched
        BY <1>2, <3>2 DEF Commit
      <4>2. row'.title = row.title /\ row'.description = row.description
        BY <2>1, <3>2, TextsStay
      <4> QED
        BY <4>1, <4>2 DEF FInv, TypeOK, TagsMatchUnlessPatched
    <3> QED
      BY <3>1, <3>2
  <2>3. TypeOK'
    <3>1. row' \in Task
      BY <2>1, MergeIsTask
    <3>2. DOMAIN log' \subseteq Field /\ \A f \in DOMAIN log' : log'[f] \in Value(f) \X Value(f)
      <4>1. DOMAIN data[r] \subseteq Field /\ \A f \in DOMAIN data[r] : data[r][f] \in Value(f)
        BY BodyFields DEF FInv, TypeOK
      <4>2. \A f \in Field : copy[r][f] \in Value(f)
        BY DEF FInv, TypeOK, Task, Field, Value
      <4> QED
        BY <2>1, <4>1, <4>2 DEF Written, Record
    <3>3. data' \in [Request -> Body]
      BY <2>1, EmptyBody DEF Reset, FInv, TypeOK
    <3>4. copy' \in [Request -> Task]
      BY <2>1 DEF Reset, FInv, TypeOK, NoTask, Task, Text
    <3>5. /\ pc' \in [Request -> Loaded \cup {"idle"}] /\ caller' \in [Request -> User \cup {NoUser}]
          /\ overtaken' \in [Request -> BOOLEAN]
          /\ \A q \in Request : pc'[q] = "idle" => caller'[q] = NoUser /\ ~overtaken'[q]
      BY <2>1 DEF Reset, FInv, TypeOK, Loaded
    <3> QED
      BY <2>2, <3>1, <3>2, <3>3, <3>4, <3>5 DEF TypeOK
  <2>4. \A q \in Request : pc'[q] \in Loaded => q # r /\ overtaken'[q]
    BY <2>1 DEF Reset, FInv, TypeOK, Loaded
  <2>5. CheckedCallers'
    BY <2>1 DEF Reset, FInv, TypeOK, Loaded, CheckedCallers
  <2>6. CopyFresh' /\ FreshOvertakes'
    BY <2>4 DEF CopyFresh, FreshOvertakes, Loaded
  <2> QED
    BY <2>2, <2>3, <2>5, <2>6 DEF FInv, TagsMatchUnlessPatched
<1> QED
  BY <1>1, <1>2

LEMMA NextFInv == FInv /\ [Next]_vars => FInv'
<1>1. ASSUME FInv, UNCHANGED vars PROVE FInv'
  BY <1>1 DEF FInv, TypeOK, CopyFresh, CheckedCallers, FreshOvertakes, TagsMatchUnlessPatched, Syncs,
              vars, rows, locals
<1>2. ASSUME FInv, NEW r \in Request, CheckPermission(r) PROVE FInv'
  <2>1. pc[r] = "permission" /\ pc[r] \in Loaded /\ "assignee" \in Loaded \ {"permission"}
    BY <1>2 DEF CheckPermission, Loaded
  <2>2. CASE caller[r] \in Leader \cup {Creator, copy[r].assignee}
    BY <1>2, <2>1, <2>2, GoToFInv DEF CheckPermission
  <2>3. CASE caller[r] \notin Leader \cup {Creator, copy[r].assignee}
    BY <1>2, <2>3, RefuseFInv DEF CheckPermission
  <2> QED
    BY <2>2, <2>3
<1>3. ASSUME FInv, NEW r \in Request, ValidateAssignee(r) PROVE FInv'
  <2>1. pc[r] = "assignee" /\ pc[r] \in Loaded /\ "flush" \in Loaded \ {"permission"}
    BY <1>3 DEF ValidateAssignee, Loaded
  <2>2. Refuse(r) \/ GoTo(r, "flush")
    BY <1>3 DEF ValidateAssignee
  <2> QED
    BY <1>3, <2>1, <2>2, GoToFInv, RefuseFInv
<1>4. ASSUME FInv, NEW r \in Request, Flush(r) PROVE FInv'
  <2>1. pc[r] = "flush" /\ pc[r] \in Loaded /\ {"tags", "commit"} \subseteq Loaded \ {"permission"}
    BY <1>4 DEF Flush, Loaded
  <2>2. CASE Syncs(r)
    BY <1>4, <2>1, <2>2, GoToFInv DEF Flush
  <2>3. CASE ~Syncs(r)
    BY <1>4, <2>1, <2>3, GoToFInv DEF Flush
  <2> QED
    BY <2>2, <2>3
<1> QED
  BY <1>1, <1>2, <1>3, <1>4, BeginFInv, DeleteTagsFInv, CommitFInv DEF Next

LEMMA FInvariance == Spec => []FInv
  BY InitFInv, NextFInv, PTL DEF Spec

\* Type correctness of a task and its history (services/task_service.py).
THEOREM FieldsTypeCorrect == Spec => []TypeOK
<1>1. FInv => TypeOK
  BY DEF FInv
<1> QED
  BY <1>1, FInvariance, PTL

\* The tags of a task are those of its title and description, unless a request that
\* was overtaken wrote them last (services/tag_service.py: sync_tags).
THEOREM TagsMatch == Spec => []TagsMatchUnlessPatched
<1>1. FInv => TagsMatchUnlessPatched
  BY DEF FInv
<1> QED
  BY <1>1, FInvariance, PTL

\* Only a commit changes the row or ends a request at its commit.
LEMMA OnlyCommits ==
    ASSUME FInv, [Next]_vars
    PROVE  /\ row' # row => \E r \in Request : Commit(r) /\ ~Conflicts(r)
           /\ \A r \in Request : pc[r] = "commit" /\ pc'[r] = "idle" => Commit(r)
<1>1. CASE UNCHANGED vars
  BY <1>1 DEF vars, rows, locals
<1>2. ASSUME NEW r \in Request,
             \/ \E u \in User, d \in Body : Begin(r, u, d)
             \/ CheckPermission(r) \/ ValidateAssignee(r) \/ Flush(r) \/ DeleteTags(r)
      PROVE  row' = row /\ pc[r] # "commit" /\ \A q \in Request : q # r => pc'[q] = pc[q]
  BY <1>2 DEF Begin, CheckPermission, ValidateAssignee, Flush, DeleteTags, GoTo, Refuse, Reset, rows,
              FInv, TypeOK
<1>3. ASSUME NEW r \in Request, Commit(r)
      PROVE  (Conflicts(r) => row' = row) /\ \A q \in Request : q # r => pc'[q] = pc[q]
  BY <1>3 DEF Commit, Refuse, Reset, rows, FInv, TypeOK
<1> QED
  BY <1>1, <1>2, <1>3 DEF Next

\* A field is changed together with a record of its two values, and an update that
\* succeeds is an editor's and all in the task, unless it was overtaken
\* (api/tasks.py: update_task, services/task_service.py: check_update_permission).
THEOREM UpdatesAreTold == Spec => UpdateToldUnlessOvertaken
<1>1. ASSUME FInv, [Next]_vars
      PROVE  [/\ HistoryTells
              /\ \A r \in Request : pc[r] = "commit" /\ pc'[r] = "idle" /\ ~Conflicts(r) =>
                    \/ overtaken[r]
                    \/ /\ Editor(r)
                       /\ row' = [f \in Field |-> IF f \in DOMAIN data[r] THEN data[r][f] ELSE row[f]]]_vars
  <2>1. HistoryTells
    <3> SUFFICES ASSUME NEW f \in Field, row'[f] # row[f]
                 PROVE  /\ f \in DOMAIN log' /\ log'[f][2] = row'[f]
                        /\ log'[f][1] = row[f] \/ \E r \in Request : pc[r] = "commit" /\ overtaken[r]
      BY DEF HistoryTells
    <3>1. PICK r \in Request : Commit(r) /\ ~Conflicts(r)
      BY <1>1, OnlyCommits
    <3>2. pc[r] = "commit" /\ row' = Merge(r) /\ log' = [g \in Written(r) |-> Record(r, g)]
      BY <3>1 DEF Commit
    <3>3. f \in Written(r) /\ row'[f] = data[r][f]
      BY <3>2 DEF Merge
    <3>4. log'[f] = <<copy[r][f], data[r][f]>>
      BY <3>2, <3>3 DEF Record
    <3>5. copy[r] = row \/ overtaken[r]
      BY <1>1, <3>2 DEF FInv, CopyFresh, Loaded
    <3> QED
      BY <3>2, <3>3, <3>4, <3>5
  <2>2. ASSUME NEW r \in Request, pc[r] = "commit", pc'[r] = "idle", ~Conflicts(r), ~overtaken[r]
        PROVE  /\ Editor(r)
               /\ row' = [f \in Field |-> IF f \in DOMAIN data[r] THEN data[r][f] ELSE row[f]]
    <3>1. copy[r] = row /\ caller[r] \in Leader \cup {Creator, copy[r].assignee}
      BY <1>1, <2>2 DEF FInv, CopyFresh, CheckedCallers, Loaded
    <3>2. row' = Merge(r)
      BY <1>1, <2>2, OnlyCommits DEF Commit
    <3>3. Merge(r) = Flushed(r)
      BY <1>1, <2>2, MergeIsTask DEF Loaded
    <3> QED
      BY <3>1, <3>2, <3>3 DEF Editor, Flushed
  <2> QED
    BY <2>1, <2>2
<1> QED
  BY <1>1, FInvariance, PTL DEF Spec, UpdateToldUnlessOvertaken

-----------------------------------------------------------------------------
\* The labels of a project and of a task.

\* Who names a label has a name for it.
NamesGiven == \A r \in Request : lStep[r] \in {"insert", "rename"} => newName[r] \in Name

\* The foreign keys of task_labels.
UsedAreThere == on \cup cloned \subseteq L!There

\* A clone carries labels that were there as it read them only because those of
\* the task are.
LInv == L!TypeOK /\ NamesGiven /\ UsedAreThere /\ L!RefusedOnlyIfOvertaken

LEMMA InitLInv == L!Init => LInv
<1> SUFFICES ASSUME L!Init PROVE LInv
  OBVIOUS
<1> USE ValuesAssumption DEF L!Init
<1>1. L!TypeOK
  BY DEF L!TypeOK, L!There
<1>2. NamesGiven /\ UsedAreThere /\ L!RefusedOnlyIfOvertaken
  BY DEF NamesGiven, UsedAreThere, L!RefusedOnlyIfOvertaken, L!Refused
<1> QED
  BY <1>1, <1>2 DEF LInv

\* A handler begins with what it has found.
LEMMA StartLInv ==
    ASSUME LInv, NEW r \in Request, NEW l \in Label, NEW n \in Name \cup {NoName}, NEW ls \in SUBSET Label,
           NEW step \in {"insert", "rename", "delete", "add", "remove", "clone"},
           L!Start(r, step, l, n, ls),
           step \in {"insert", "rename"} => n \in Name,
           step = "insert" => ~L!Taken(n),
           step = "add" => l \in L!There \ on,
           step = "clone" => ~wasCloned /\ ls \subseteq L!There
    PROVE  LInv'
<1> USE DEF L!Start, L!rows
<1>1. L!TypeOK'
  BY DEF LInv, L!TypeOK, L!There
<1>2. NamesGiven'
  BY DEF LInv, L!TypeOK, NamesGiven
<1>3. UsedAreThere'
  BY DEF LInv, UsedAreThere, L!There
<1>4. L!RefusedOnlyIfOvertaken'
  BY DEF LInv, L!TypeOK, L!RefusedOnlyIfOvertaken, L!Refused, L!Taken, L!There
<1> QED
  BY <1>1, <1>2, <1>3, <1>4 DEF LInv

\* The database refuses a request.
LEMMA FailLInv ==
    ASSUME LInv, NEW r \in Request, L!Fail(r)
    PROVE  LInv'
<1> USE DEF L!Fail, L!Idle, L!rows
<1>1. L!TypeOK'
  BY DEF LInv, L!TypeOK, L!There
<1>2. NamesGiven'
  BY DEF LInv, L!TypeOK, NamesGiven
<1>3. UsedAreThere'
  BY DEF LInv, UsedAreThere, L!There
<1>4. L!RefusedOnlyIfOvertaken'
  BY DEF LInv, L!TypeOK, L!RefusedOnlyIfOvertaken, L!Refused, L!Taken, L!There
<1> QED
  BY <1>1, <1>2, <1>3, <1>4 DEF LInv

\* A commit overtakes every other request, whatever it writes.
LEMMA SucceedLInv ==
    ASSUME LInv, NEW r \in Request, L!Succeed(r),
           name' \in [Label -> Name \cup {NoName}],
           \A l, k \in L!There' : name'[l] = name'[k] => l = k,
           on' \subseteq Label, cloned' \subseteq Label, wasCloned' \in BOOLEAN,
           UsedAreThere'
    PROVE  LInv'
<1> USE DEF L!Succeed, L!Idle
<1>1. L!TypeOK'
  BY DEF LInv, L!TypeOK
<1>2. NamesGiven'
  BY DEF LInv, L!TypeOK, NamesGiven
<1>3. L!RefusedOnlyIfOvertaken'
  <2>1. \A q \in Request : lStep'[q] # "idle" => lOver'[q]
    BY DEF LInv, L!TypeOK
  <2> QED
    BY <2>1 DEF L!RefusedOnlyIfOvertaken, L!Refused
<1> QED
  BY <1>1, <1>2, <1>3 DEF LInv

\* A label gets a name that no other has.
LEMMA NameLInv ==
    ASSUME LInv, NEW r \in Request, L!Succeed(r), newName[r] \in Name,
           ~L!Taken(newName[r]) \/ name[label[r]] = newName[r],
           name' = [name EXCEPT ![label[r]] = newName[r]], UNCHANGED <<on, cloned, wasCloned>>
    PROVE  LInv'
<1>1. label[r] \in Label /\ name \in [Label -> Name \cup {NoName}]
  BY DEF LInv, L!TypeOK
<1>2. \A l, k \in L!There' : name'[l] = name'[k] => l = k
  BY <1>1 DEF LInv, L!TypeOK, L!There, L!Taken
<1>3. UsedAreThere'
  BY <1>1, ValuesAssumption DEF LInv, UsedAreThere, L!There
<1> QED
  BY <1>1, <1>2, <1>3, SucceedLInv DEF LInv, L!TypeOK

LEMMA NextLInv == LInv /\ [L!Next]_(L!vars) => LInv'
<1>1. ASSUME LInv, UNCHANGED L!vars PROVE LInv'
  BY <1>1 DEF LInv, L!TypeOK, NamesGiven, UsedAreThere, L!RefusedOnlyIfOvertaken, L!Refused, L!Taken,
              L!There, L!vars, L!rows, L!locals
<1>2. ASSUME LInv, NEW r \in Request, NEW l \in Label, NEW n \in Name,
             L!BeginCreate(r, l, n) \/ L!BeginRename(r, l, n)
      PROVE  LInv'
  BY <1>2, StartLInv DEF L!BeginCreate, L!BeginRename
<1>3. ASSUME LInv, NEW r \in Request, NEW l \in Label,
             L!BeginDelete(r, l) \/ L!BeginAdd(r, l) \/ L!BeginRemove(r, l)
      PROVE  LInv'
  BY <1>3, StartLInv DEF L!BeginDelete, L!BeginAdd, L!BeginRemove
<1>4. ASSUME LInv, NEW r \in Request, L!BeginClone(r) PROVE LInv'
  <2>1. label[r] \in Label /\ on \in SUBSET Label /\ on \subseteq L!There
    BY <1>4 DEF LInv, L!TypeOK, UsedAreThere
  <2> QED
    BY <1>4, <2>1, StartLInv DEF L!BeginClone
<1>5. ASSUME LInv, NEW r \in Request, L!Insert(r) \/ L!Rename(r) PROVE LInv'
  <2>1. newName[r] \in Name
    BY <1>5 DEF LInv, NamesGiven, L!Insert, L!Rename
  <2> QED
    BY <1>5, <2>1, FailLInv, NameLInv DEF L!Insert, L!Rename
<1>6. ASSUME LInv, NEW r \in Request, L!Delete(r) PROVE LInv'
  <2>1. CASE label[r] \in on \cup cloned
    BY <1>6, <2>1, FailLInv DEF L!Delete
  <2>2. CASE label[r] \notin on \cup cloned
    <3>1. /\ name' = [name EXCEPT ![label[r]] = NoName] /\ L!Succeed(r)
          /\ UNCHANGED <<on, cloned, wasCloned>>
      BY <1>6, <2>2 DEF L!Delete
    <3>2. UsedAreThere'
      BY <1>6, <2>2, <3>1 DEF LInv, L!TypeOK, UsedAreThere, L!There
    <3>3. \A l, k \in L!There' : name'[l] = name'[k] => l = k
      BY <1>6, <3>1 DEF LInv, L!TypeOK, L!There
    <3> QED
      BY <1>6, <3>1, <3>2, <3>3, SucceedLInv DEF LInv, L!TypeOK
  <2> QED
    BY <2>1, <2>2
<1>7. ASSUME LInv, NEW r \in Request, L!Add(r) \/ L!Remove(r) \/ L!Clone(r) PROVE LInv'
  <2>1. CASE L!Fail(r)
    BY <1>7, <2>1, FailLInv
  <2>2. CASE ~L!Fail(r)
    <3>1. L!Succeed(r) /\ name' = name
      BY <1>7, <2>2 DEF L!Add, L!Remove, L!Clone
    <3>2. L!There' = L!There
      BY <3>1 DEF L!There
    <3>3. on' \subseteq Label /\ cloned' \subseteq Label /\ wasCloned' \in BOOLEAN
      <4>1. /\ on \subseteq Label /\ cloned \subseteq Label /\ wasCloned \in BOOLEAN
            /\ label[r] \in Label /\ carried[r] \subseteq Label
        BY <1>7 DEF LInv, L!TypeOK
      <4>2. CASE L!Add(r)
        BY <2>2, <4>1, <4>2 DEF L!Add
      <4>3. CASE L!Remove(r)
        BY <4>1, <4>3 DEF L!Remove
      <4>4. CASE L!Clone(r)
        BY <2>2, <4>1, <4>4 DEF L!Clone
      <4> QED
        BY <1>7, <4>2, <4>3, <4>4
    <3>4. UsedAreThere'
      BY <1>7, <2>2, <3>2 DEF L!Add, L!Remove, L!Clone, LInv, UsedAreThere
    <3> QED
      BY <1>7, <3>1, <3>2, <3>3, <3>4, SucceedLInv DEF LInv, L!TypeOK
  <2> QED
    BY <2>1, <2>2
<1> QED
  BY <1>1, <1>2, <1>3, <1>4, <1>5, <1>6, <1>7 DEF L!Next

LEMMA LInvariance == L!Spec => []LInv
  BY InitLInv, NextLInv, PTL DEF L!Spec

\* Type correctness of labels: no two of a project have one name
\* (services/label_service.py).
THEOREM LabelsTypeCorrect == L!Spec => []L!TypeOK
<1>1. LInv => L!TypeOK
  BY DEF LInv
<1> QED
  BY <1>1, LInvariance, PTL

\* A label that create_label, add_label or clone_task has checked is refused by the
\* database only if another request was committed in between
\* (services/label_service.py: create_label, services/task_service.py: clone_task).
THEOREM LabelsRefusedIfOvertaken == L!Spec => []L!RefusedOnlyIfOvertaken
<1>1. LInv => L!RefusedOnlyIfOvertaken
  BY DEF LInv
<1> QED
  BY <1>1, LInvariance, PTL

-----------------------------------------------------------------------------
\* A template and the tasks made from it.

\* What a request has loaded is the template, unless another commit overtook it.
TemplateFresh == \A r \in Request : tStep[r] \in T!Loaded /\ ~tOver[r] => tCopy[r] = template

\* A row that was flushed is there until its request ends.
HeldIsThere == \A r \in Request : tStep[r] = "commit" /\ T!Changed(r) # {} => template # NoTemplate

TInv == T!TypeOK /\ TemplateFresh /\ HeldIsThere

LEMMA NoFieldSet == <<>> \in T!Body
<1>1. <<>> \in [{} -> Content]
  OBVIOUS
<1>2. {} \in SUBSET T!Field
  OBVIOUS
<1> QED
  BY <1>1, <1>2 DEF T!Body

LEMMA InitTInv == T!Init => TInv
<1> SUFFICES ASSUME T!Init PROVE TInv
  OBVIOUS
<1>1. T!TypeOK
  BY NoFieldSet DEF T!Init, T!TypeOK, T!Loaded
<1>2. TemplateFresh /\ HeldIsThere
  BY DEF T!Init, TemplateFresh, HeldIsThere, T!Loaded
<1> QED
  BY <1>1, <1>2 DEF TInv

\* A request begins, or has found the template, or has flushed.
LEMMA BeginTInv ==
    ASSUME TInv, NEW r \in Request, NEW step \in {"update", "delete", "task"}, NEW d \in T!Body,
           T!Begin(r, step, d)
    PROVE  TInv'
<1> USE DEF T!Begin, T!rows
<1>1. T!TypeOK'
  BY DEF TInv, T!TypeOK, T!Loaded
<1>2. TemplateFresh'
  BY DEF TInv, T!TypeOK, TemplateFresh, T!Loaded
<1>3. HeldIsThere'
  BY DEF TInv, T!TypeOK, HeldIsThere, T!Changed
<1> QED
  BY <1>1, <1>2, <1>3 DEF TInv

\* The end of a request that leaves the template as it is, or has changed it and so
\* overtaken whoever has loaded it.
LEMMA EndTInv ==
    ASSUME TInv, NEW r \in Request, NEW changed \in BOOLEAN, T!End(r, changed),
           template' \in T!Template \cup {NoTemplate}, made' \in T!Template \cup {NoTemplate},
           template' = template \/ changed,
           template' # NoTemplate \/ \A q \in Request : q # r /\ tStep[q] = "commit" => T!Changed(q) = {}
    PROVE  TInv'
<1> USE DEF T!End
<1>1. T!TypeOK'
  BY NoFieldSet DEF TInv, T!TypeOK, T!Loaded
<1>2. TemplateFresh'
  BY DEF TInv, T!TypeOK, TemplateFresh, T!Loaded
<1>3. HeldIsThere'
  BY DEF TInv, T!TypeOK, HeldIsThere, T!Changed
<1> QED
  BY <1>1, <1>2, <1>3 DEF TInv

\* A request that ends without a write.
LEMMA LeaveTInv ==
    ASSUME TInv, NEW r \in Request, T!End(r, FALSE), template' = template,
           made' \in T!Template \cup {NoTemplate}
    PROVE  TInv'
<1>1. template' # NoTemplate \/ \A q \in Request : q # r /\ tStep[q] = "commit" => T!Changed(q) = {}
  BY DEF TInv, HeldIsThere
<1> QED
  BY <1>1, EndTInv DEF TInv, T!TypeOK

LEMMA LoadTInv ==
    ASSUME TInv, NEW r \in Request, NEW step \in {"flush", "insert"}, T!Load(r, step)
    PROVE  TInv'
<1>1. CASE template = NoTemplate
  BY <1>1, LeaveTInv DEF T!Load, T!rows, TInv, T!TypeOK
<1>2. CASE template # NoTemplate
  <2> USE DEF T!Load, T!rows
  <2>1. T!TypeOK'
    BY <1>2 DEF TInv, T!TypeOK, T!Loaded
  <2>2. TemplateFresh'
    BY <1>2 DEF TInv, T!TypeOK, TemplateFresh
  <2>3. HeldIsThere'
    BY <1>2 DEF HeldIsThere
  <2> QED
    BY <2>1, <2>2, <2>3 DEF TInv
<1> QED
  BY <1>1, <1>2

LEMMA FlushTInv ==
    ASSUME TInv, NEW r \in Request, T!Flush(r)
    PROVE  TInv'
<1>1. CASE template = NoTemplate
  BY <1>1, LeaveTInv DEF T!Flush, T!rows, TInv, T!TypeOK
<1>2. CASE template # NoTemplate
  <2> USE <1>2 DEF T!Flush, T!rows
  <2>1. T!TypeOK'
    BY DEF TInv, T!TypeOK, T!Loaded
  <2>2. TemplateFresh'
    BY DEF TInv, T!TypeOK, TemplateFresh, T!Loaded
  <2>3. HeldIsThere'
    <3>1. /\ tStep' = [tStep EXCEPT ![r] = "commit"] /\ template' = template
          /\ \A q \in Request : T!Changed(q)' = T!Changed(q)
      BY DEF T!Changed
    <3> QED
      BY <1>2, <3>1 DEF TInv, T!TypeOK, HeldIsThere
  <2> QED
    BY <2>1, <2>2, <2>3 DEF TInv
<1> QED
  BY <1>1, <1>2

\* What a commit writes is a template, and the one there is if nothing is changed.
LEMMA WrittenIsTemplate ==
    ASSUME TInv, NEW r \in Request, template # NoTemplate
    PROVE  T!Written(r) \in T!Template /\ (T!Changed(r) = {} => T!Written(r) = template)
<1>1. template \in [T!Field -> Content]
  BY DEF TInv, T!TypeOK, T!Template
<1>2. \A f \in DOMAIN tData[r] : tData[r][f] \in Content
  BY DEF TInv, T!TypeOK, T!Body
<1> QED
  BY <1>1, <1>2 DEF T!Written, T!Template, T!Changed

LEMMA CommitTInv ==
    ASSUME TInv, NEW r \in Request, T!Commit(r)
    PROVE  TInv'
<1>1. T!End(r, T!Changed(r) # {}) /\ made' = made
  BY DEF T!Commit
<1>2. CASE template = NoTemplate
  <2>1. template' = NoTemplate
    BY <1>2 DEF T!Commit
  <2>2. T!Changed(r) = {} /\ \A q \in Request : tStep[q] = "commit" => T!Changed(q) = {}
    BY <1>2 DEF TInv, HeldIsThere, T!Commit
  <2> QED
    BY <1>1, <1>2, <2>1, <2>2, LeaveTInv DEF TInv, T!TypeOK
<1>3. CASE template # NoTemplate
  <2>1. template' = T!Written(r)
    BY <1>3 DEF T!Commit
  <2>2. template' # NoTemplate
    BY <1>3, <2>1, WrittenIsTemplate, ValuesAssumption
  <2> QED
    BY <1>1, <1>3, <2>1, <2>2, WrittenIsTemplate, EndTInv DEF TInv, T!TypeOK
<1> QED
  BY <1>2, <1>3

LEMMA DeleteTInv ==
    ASSUME TInv, NEW r \in Request, T!Delete(r)
    PROVE  TInv'
<1>1. \A q \in Request : tStep[q] = "commit" => T!Changed(q) = {}
  BY DEF T!Delete, T!Held
<1>2. T!End(r, template # NoTemplate) /\ made' = made /\ template' = NoTemplate
  BY DEF T!Delete
<1> QED
  BY <1>1, <1>2, EndTInv DEF TInv, T!TypeOK

LEMMA NextTInv == TInv /\ [T!Next]_(T!vars) => TInv'
<1>1. ASSUME TInv, UNCHANGED T!vars PROVE TInv'
  BY <1>1 DEF TInv, T!TypeOK, TemplateFresh, HeldIsThere, T!Changed, T!vars, T!rows, T!locals
<1>2. ASSUME TInv, NEW t \in T!Template, T!Create(t) PROVE TInv'
  BY <1>2 DEF T!Create, TInv, T!TypeOK, T!Loaded, TemplateFresh, HeldIsThere, T!Changed, T!locals
<1>3. ASSUME TInv, NEW r \in Request,
             (\E d \in T!Body : T!BeginUpdate(r, d)) \/ T!BeginDelete(r) \/ T!BeginTask(r)
      PROVE  TInv'
  BY <1>3, BeginTInv, NoFieldSet DEF T!BeginUpdate, T!BeginDelete, T!BeginTask
<1>4. ASSUME TInv, NEW r \in Request, T!Update(r) \/ T!FindTemplate(r) PROVE TInv'
  BY <1>4, LoadTInv DEF T!Update, T!FindTemplate
<1>5. ASSUME TInv, NEW r \in Request, T!InsertTask(r) PROVE TInv'
  <2>1. tCopy[r] \in T!Template \cup {NoTemplate}
    BY <1>5 DEF TInv, T!TypeOK
  <2> QED
    BY <1>5, <2>1, LeaveTInv DEF T!InsertTask, T!TaskFields
<1> QED
  BY <1>1, <1>2, <1>3, <1>4, <1>5, FlushTInv, CommitTInv, DeleteTInv DEF T!Next

LEMMA TInvariance == T!Spec => []TInv
  BY InitTInv, NextTInv, PTL DEF T!Spec

\* Type correctness of a template: a handler has a copy exactly while it needs one
\* (services/template_service.py).
THEOREM TemplatesTypeCorrect == T!Spec => []T!TypeOK
<1>1. TInv => T!TypeOK
  BY DEF TInv
<1> QED
  BY <1>1, TInvariance, PTL

\* An update ends at its commit only by committing, and a task by its insertion.
LEMMA WhoEnds ==
    ASSUME TInv, [T!Next]_(T!vars), NEW r \in Request, tStep'[r] = "idle", tStep[r] \in {"commit", "insert"}
    PROVE  T!Commit(r) \/ T!InsertTask(r)
<1>1. CASE UNCHANGED T!vars
  BY <1>1 DEF T!vars, T!locals
<1>2. ASSUME NEW t \in T!Template, T!Create(t) PROVE FALSE
  BY <1>2 DEF T!Create, T!locals
<1>3. ASSUME NEW q \in Request,
             \/ \E d \in T!Body : T!BeginUpdate(q, d)
             \/ T!BeginDelete(q) \/ T!BeginTask(q)
             \/ T!Update(q) \/ T!Flush(q) \/ T!Delete(q) \/ T!FindTemplate(q)
      PROVE  FALSE
  <2>1. tStep[q] \in {"idle", "update", "flush", "delete", "task"} /\ \A p \in Request : p # q => tStep'[p] = tStep[p]
    BY <1>3 DEF T!BeginUpdate, T!BeginDelete, T!BeginTask, T!Update, T!Flush, T!Delete, T!FindTemplate,
                T!Begin, T!Load, T!End, TInv, T!TypeOK
  <2> QED
    BY <2>1
<1>4. ASSUME NEW q \in Request, T!Commit(q) \/ T!InsertTask(q) PROVE q = r
  BY <1>4 DEF T!Commit, T!InsertTask, T!End, TInv, T!TypeOK
<1> QED
  BY <1>1, <1>2, <1>3, <1>4 DEF T!Next

\* An update leaves what it does not set and writes what it does, and a task is made
\* of the template there is, unless the request was overtaken
\* (utils/safe_update.py, services/template_service.py: create_task_from_template).
THEOREM UpdatesAreKept == T!Spec => UpdateIsKept
<1>1. ASSUME TInv, [T!Next]_(T!vars)
      PROVE  [\A r \in Request : tStep'[r] = "idle" =>
                 (tStep[r] = "commit" => T!Kept(r)) /\ (tStep[r] = "insert" => T!Copied(r))]_(T!vars)
  <2>1. ASSUME NEW r \in Request, tStep'[r] = "idle", tStep[r] = "commit" PROVE T!Kept(r)
    <3>1. T!Commit(r)
      BY <1>1, <2>1, WhoEnds DEF T!InsertTask
    <3>2. CASE template = NoTemplate
      BY <1>1, <3>1, <3>2 DEF T!Commit, T!Kept, TInv, HeldIsThere
    <3>3. CASE template # NoTemplate
      <4>1. template' = T!Written(r)
        BY <3>1, <3>3 DEF T!Commit
      <4>2. tCopy[r] = template \/ tOver[r]
        BY <1>1, <2>1 DEF TInv, TemplateFresh, T!Loaded
      <4> QED
        BY <3>3, <4>1, <4>2 DEF T!Kept, T!Written, T!Changed
    <3> QED
      BY <3>2, <3>3
  <2>2. ASSUME NEW r \in Request, tStep'[r] = "idle", tStep[r] = "insert" PROVE T!Copied(r)
    <3>1. T!InsertTask(r)
      BY <1>1, <2>2, WhoEnds DEF T!Commit
    <3>2. tCopy[r] = template \/ tOver[r]
      BY <1>1, <2>2 DEF TInv, TemplateFresh, T!Loaded
    <3> QED
      BY <3>1, <3>2 DEF T!Copied, T!InsertTask, T!TaskFields
  <2> QED
    BY <2>1, <2>2
<1> QED
  BY <1>1, TInvariance, PTL DEF T!Spec, UpdateIsKept, T!UpdateIsKept

-----------------------------------------------------------------------------
\* Behind walk through the list of tasks.

LEMMA SameCountP == \A U : P!Cardinality(U) = Cardinality(U)
  BY DEF P!Cardinality, Cardinality

\* How many of R are newer than t.
Newer(R, t) == {u \in R : u > t}
Rank(R, t) == Cardinality(Newer(R, t))

LEMMA TasksAreFinite ==
    ASSUME NEW R \in SUBSET P!Task
    PROVE  IsFiniteSet(R) /\ Cardinality(R) \in Nat /\ R \subseteq Nat \ {0}
<1>1. IsFiniteSet(P!Task) /\ P!Task \subseteq Nat \ {0}
  BY FS_Interval, BoundsAssumption DEF P!Task
<1> QED
  BY <1>1, FS_Subset, FS_CardinalityType

LEMMA RanksAreSmall ==
    ASSUME NEW R \in SUBSET P!Task, NEW t \in R
    PROVE  Rank(R, t) \in 0 .. Cardinality(R) - 1
<1>1. IsFiniteSet(R) /\ Cardinality(R) \in Nat /\ R \subseteq Nat
  BY TasksAreFinite
<1>2. IsFiniteSet(R \ {t}) /\ Cardinality(R \ {t}) = Cardinality(R) - 1
  BY <1>1, FS_RemoveElement
<1>3. Newer(R, t) \in SUBSET (R \ {t})
  BY <1>1 DEF Newer
<1>4. Cardinality(Newer(R, t)) <= Cardinality(R \ {t}) /\ Cardinality(Newer(R, t)) \in Nat
  BY <1>2, <1>3, FS_Subset, FS_CardinalityType
<1> QED
  BY <1>1, <1>2, <1>4 DEF Rank

\* The newer a task, the smaller its rank.
LEMMA RanksFall ==
    ASSUME NEW R \in SUBSET P!Task, NEW t \in R, NEW u \in R, t < u
    PROVE  Rank(R, u) < Rank(R, t)
<1>1. IsFiniteSet(R) /\ R \subseteq Nat
  BY TasksAreFinite
<1>2. Newer(R, u) \in SUBSET Newer(R, t) /\ u \in Newer(R, t) /\ u \notin Newer(R, u)
  <2>1. t \in Nat /\ u \in Nat /\ \A v \in R : v \in Nat
    BY <1>1
  <2>2. \A v \in R : v > u => v > t
    BY <2>1
  <2>3. u > t /\ ~(u > u)
    BY <2>1
  <2> QED
    BY <2>2, <2>3 DEF Newer
<1>3. IsFiniteSet(Newer(R, t))
  BY <1>1, FS_Subset DEF Newer
<1>4. /\ Cardinality(Newer(R, u)) <= Cardinality(Newer(R, t))
      /\ Cardinality(Newer(R, u)) # Cardinality(Newer(R, t))
  BY <1>2, <1>3, FS_Subset
<1>5. Cardinality(Newer(R, u)) \in Nat /\ Cardinality(Newer(R, t)) \in Nat
  BY <1>2, <1>3, FS_Subset, FS_CardinalityType
<1> QED
  BY <1>4, <1>5 DEF Rank

\* So every rank is some task's: as many ranks as tasks, and no two tasks share one.
LEMMA RanksAreTaken ==
    ASSUME NEW R \in SUBSET P!Task, NEW k \in 0 .. Cardinality(R) - 1
    PROVE  \E t \in R : Rank(R, t) = k
<1> DEFINE n == Cardinality(R)
           f == [t \in R |-> Rank(R, t)]
<1>1. IsFiniteSet(R) /\ n \in Nat /\ R \subseteq Nat
  BY TasksAreFinite
<1>2. \A t, u \in R : f[t] = f[u] => t = u
  <2> SUFFICES ASSUME NEW t \in R, NEW u \in R, t # u PROVE Rank(R, t) # Rank(R, u)
    OBVIOUS
  <2>1. Rank(R, t) \in 0 .. n - 1 /\ Rank(R, u) \in 0 .. n - 1
    BY RanksAreSmall
  <2>2. t < u \/ u < t
    BY <1>1
  <2>3. Rank(R, u) < Rank(R, t) \/ Rank(R, t) < Rank(R, u)
    BY <2>2, RanksFall
  <2> QED
    BY <1>1, <2>1, <2>3
<1>3. f \in Injection(R, 0 .. n - 1)
  <2>1. f \in [R -> 0 .. n - 1]
    BY RanksAreSmall
  <2> QED
    BY <1>2, <2>1 DEF Injection, IsInjective
<1>4. IsFiniteSet(0 .. n - 1) /\ Cardinality(0 .. n - 1) = n
  <2>1. n - 1 \in Int
    BY <1>1
  <2> QED
    BY <1>1, <2>1, FS_Interval
<1>5. f \in Surjection(R, 0 .. n - 1)
  BY <1>3, <1>4, FS_Injection
<1>6. PICK t \in R : f[t] = k
  BY <1>5 DEF Surjection
<1> QED
  BY <1>6

\* ORDER BY created_at DESC, id DESC: every task of the list once, the newer first.
LEMMA DescendingSorts ==
    ASSUME NEW R \in SUBSET P!Task
    PROVE  LET d == P!Descending(R)
               n == Cardinality(R)
           IN  /\ n \in Nat /\ d \in Seq(R) /\ Len(d) = n
               /\ \A i, j \in 1..n : i < j => d[j] < d[i]
               /\ \A t \in R : \E i \in 1..n : d[i] = t
<1> DEFINE d == P!Descending(R)
           n == Cardinality(R)
<1>1. n \in Nat /\ R \subseteq Nat
  BY TasksAreFinite
<1>2. d = [i \in 1..P!Cardinality(R) |-> CHOOSE t \in R : P!Cardinality({u \in R : u > t}) = i - 1]
  BY DEF P!Descending
<1> HIDE DEF d
<1>3. ASSUME NEW i \in 1..n PROVE d[i] \in R /\ Rank(R, d[i]) = i - 1
  <2>1. i - 1 \in 0 .. n - 1
    BY <1>1
  <2>2. \E t \in R : P!Cardinality({u \in R : u > t}) = i - 1
    BY <2>1, RanksAreTaken, SameCountP DEF Rank, Newer
  <2>3. d[i] = CHOOSE t \in R : P!Cardinality({u \in R : u > t}) = i - 1
    BY <1>2, SameCountP
  <2>4. d[i] \in R /\ P!Cardinality({u \in R : u > d[i]}) = i - 1
    BY <2>2, <2>3
  <2> QED
    BY <2>4, SameCountP DEF Rank, Newer
<1>4. d \in Seq(R) /\ Len(d) = n
  <2> DEFINE Choice(i) == CHOOSE t \in R : P!Cardinality({u \in R : u > t}) = i - 1
  <2>1. d = [i \in 1..n |-> Choice(i)]
    BY <1>2, SameCountP
  <2> HIDE DEF Choice
  <2>2. DOMAIN d = 1..n /\ d = [i \in 1..n |-> d[i]]
    BY <2>1
  <2> QED
    BY <1>1, <1>3, <2>2
<1>5. ASSUME NEW i \in 1..n, NEW j \in 1..n, i < j PROVE d[j] < d[i]
  <2>1. d[i] \in R /\ d[j] \in R /\ Rank(R, d[i]) = i - 1 /\ Rank(R, d[j]) = j - 1
    BY <1>3
  <2>2. d[i] # d[j]
    BY <1>1, <1>5, <2>1
  <2>3. ~(d[i] < d[j])
    <3>1. d[i] < d[j] => Rank(R, d[j]) < Rank(R, d[i])
      BY <2>1, RanksFall
    <3> QED
      BY <1>1, <1>5, <2>1, <3>1
  <2>4. d[i] \in Nat /\ d[j] \in Nat
    BY <1>1, <2>1
  <2> QED
    BY <2>2, <2>3, <2>4
<1>6. ASSUME NEW t \in R PROVE \E i \in 1..n : d[i] = t
  <2> DEFINE i == Rank(R, t) + 1
  <2>1. Rank(R, t) \in 0 .. n - 1
    BY RanksAreSmall
  <2>2. i \in 1..n /\ i - 1 = Rank(R, t)
    BY <1>1, <2>1
  <2>3. d[i] \in R /\ Rank(R, d[i]) = Rank(R, t)
    BY <1>3, <2>2
  <2>4. ~(d[i] < t) /\ ~(t < d[i])
    <3>1. d[i] < t => Rank(R, t) < Rank(R, d[i])
      BY <2>3, RanksFall
    <3>2. t < d[i] => Rank(R, d[i]) < Rank(R, t)
      BY <2>3, RanksFall
    <3> QED
      BY <1>1, <2>1, <2>3, <3>1, <3>2
  <2>5. d[i] = t
    <3>1. d[i] \in Nat /\ t \in Nat
      BY <1>1, <2>3
    <3> QED
      BY <2>4, <3>1
  <2> QED
    BY <2>2, <2>5
<1> QED
  BY <1>1, <1>4, <1>5, <1>6 DEF d

\* What a page shows, in terms of the whole list behind the cursor.
LEMMA PageShows ==
    ASSUME NEW c \in Nat, listed \subseteq P!Task, P!Page(c)
    PROVE  LET d == P!Descending(P!After(c))
               n == Len(d)
           IN  \E page \in Seq(P!Task) :
                  /\ shown' = shown \o page
                  /\ Len(page) = IF n <= LIMIT THEN n ELSE LIMIT
                  /\ \A i \in 1..Len(page) : page[i] = d[i]
                  /\ more' = (n > LIMIT)
                  /\ cursor' = IF n > LIMIT THEN d[LIMIT] ELSE 0
<1> DEFINE Behind == P!After(c)
           d == P!Descending(Behind)
           n == Len(d)
           found == P!Prefix(d, LIMIT + 1)
           page == P!Prefix(found, LIMIT)
<1>1. /\ shown' = shown \o page /\ more' = (Len(found) > LIMIT)
      /\ cursor' = IF Len(found) > LIMIT THEN found[LIMIT] ELSE 0
  BY DEF P!Page, P!NextCursor
<1>2. Behind \in SUBSET P!Task
  BY DEF P!After
<1>3. d \in Seq(P!Task) /\ n \in Nat
  <2>1. d \in Seq(Behind) /\ n \in Nat
    BY <1>2, DescendingSorts
  <2> QED
    BY <1>2, <2>1, SeqMonotonic
<1> HIDE DEF Behind, d, n
<1>4. /\ found \in Seq(P!Task) /\ Len(found) = IF n < LIMIT + 1 THEN n ELSE LIMIT + 1
      /\ \A i \in 1..Len(found) : found[i] = d[i]
  BY <1>3, BoundsAssumption DEF P!Prefix, n
<1> HIDE DEF found
<1>5. /\ page \in Seq(P!Task) /\ Len(page) = IF Len(found) < LIMIT THEN Len(found) ELSE LIMIT
      /\ \A i \in 1..Len(page) : page[i] = found[i]
  BY <1>4, BoundsAssumption DEF P!Prefix
<1> HIDE DEF page
<1>6. Len(found) > LIMIT <=> n > LIMIT
  BY <1>3, <1>4, BoundsAssumption
<1>7. Len(page) = IF n <= LIMIT THEN n ELSE LIMIT
  BY <1>3, <1>4, <1>5, BoundsAssumption
<1>8. \A i \in 1..Len(page) : page[i] = d[i]
  BY <1>3, <1>4, <1>5, <1>7, BoundsAssumption
<1>9. n > LIMIT => found[LIMIT] = d[LIMIT]
  BY <1>3, <1>4, BoundsAssumption
<1>10. more' = (n > LIMIT) /\ cursor' = IF n > LIMIT THEN d[LIMIT] ELSE 0
  BY <1>1, <1>6, <1>9
<1> QED
  BY <1>1, <1>5, <1>7, <1>8, <1>10 DEF n, d, Behind

\* Behind walk whose cursors were all understood: what it has shown is newer than what is
\* to come, and it has a cursor once it has shown something.
ShownIsNewer ==
    again = TRUE \/ /\ cursor # 0 => \A i \in DOMAIN shown : cursor <= shown[i]
                    /\ cursor = 0 /\ more = TRUE => shown = <<>>

WInv == P!TypeOK /\ ShownIsNewer /\ P!NewestFirst /\ P!SteadyShown

LEMMA InitWInv == P!Init => WInv
<1> SUFFICES ASSUME P!Init PROVE WInv
  OBVIOUS
<1>1. shown = <<>> /\ shown \in Seq(P!Task) /\ Len(shown) = 0 /\ DOMAIN shown = {}
  BY DEF P!Init
<1>2. P!TypeOK
  <2>1. Len(shown) < MAX_SHOWN + LIMIT
    <3>1. 0 < MAX_SHOWN + LIMIT
      BY BoundsAssumption
    <3> QED
      BY <1>1, <3>1
  <2>2. /\ listed \subseteq P!Task /\ steady \subseteq listed /\ cursor = 0 /\ more = TRUE
        /\ again \in BOOLEAN
    BY DEF P!Init
  <2> QED
    BY <1>1, <2>1, <2>2 DEF P!TypeOK
<1>3. ShownIsNewer /\ P!NewestFirst /\ P!SteadyShown
  BY <1>1 DEF P!Init, ShownIsNewer, P!NewestFirst, P!SteadyShown
<1> QED
  BY <1>2, <1>3 DEF WInv

\* Behind page from the cursor, or from the start once a cursor was mangled.
LEMMA PageWInv ==
    ASSUME WInv, NEW c \in {0, cursor}, P!Page(c), again' \in BOOLEAN,
           again' = TRUE \/ (again = FALSE /\ c = cursor)
    PROVE  WInv'
<1> DEFINE Behind == P!After(c)
           d == P!Descending(Behind)
           n == Len(d)
           m == Len(shown)
<1>1. /\ c \in Nat /\ listed \subseteq P!Task /\ more = TRUE /\ UNCHANGED <<listed, steady>>
      /\ Len(shown) < MAX_SHOWN /\ shown \in Seq(P!Task) /\ m \in Nat
      /\ cursor \in P!Task \cup {0} /\ steady \subseteq listed /\ P!Task \subseteq Nat \ {0}
  <2>1. P!Task \subseteq Nat \ {0}
    BY TasksAreFinite
  <2>2. /\ listed \subseteq P!Task /\ shown \in Seq(P!Task) /\ cursor \in P!Task \cup {0}
        /\ steady \subseteq listed /\ more \in BOOLEAN
    BY DEF WInv, P!TypeOK
  <2>3. more /\ UNCHANGED <<listed, steady>> /\ Len(shown) < MAX_SHOWN
    BY DEF P!Page
  <2>4. c \in Nat
    BY <2>1, <2>2
  <2>5. m \in Nat
    BY <2>2
  <2> QED
    BY <2>1, <2>2, <2>3, <2>4, <2>5
<1>2. Behind \in SUBSET P!Task /\ \A t \in Behind : c = 0 \/ t < c
  BY <1>1 DEF P!After
<1>3. /\ n \in Nat /\ d \in Seq(Behind) /\ \A i, j \in 1..n : i < j => d[j] < d[i]
      /\ \A t \in Behind : \E i \in 1..n : d[i] = t
  BY <1>2, DescendingSorts
<1>4. PICK page \in Seq(P!Task) :
         /\ shown' = shown \o page /\ Len(page) = IF n <= LIMIT THEN n ELSE LIMIT
         /\ \A i \in 1..Len(page) : page[i] = d[i]
         /\ more' = (n > LIMIT) /\ cursor' = IF n > LIMIT THEN d[LIMIT] ELSE 0
  BY <1>1, PageShows
<1> DEFINE k == Len(page)
<1> HIDE DEF Behind, d, n, m
<1>5. /\ k \in Nat /\ k <= LIMIT /\ k <= n
      /\ shown' \in Seq(P!Task) /\ Len(shown') = m + k /\ DOMAIN shown' = 1 .. m + k
      /\ \A i \in 1..m : shown'[i] = shown[i]
      /\ \A i \in 1..k : shown'[m + i] = d[i] /\ d[i] \in Behind
  <2>1. k \in Nat /\ k <= LIMIT /\ k <= n
    BY <1>3, <1>4, BoundsAssumption
  <2>2. shown' \in Seq(P!Task) /\ Len(shown') = m + k /\ DOMAIN shown' = 1 .. m + k
    <3>1. shown \o page \in Seq(P!Task) /\ Len(shown \o page) = Len(shown) + Len(page)
      BY <1>1, <1>4, ConcatProperties
    <3>2. DOMAIN (shown \o page) = 1 .. Len(shown \o page)
      BY <3>1, LenProperties
    <3> QED
      BY <1>4, <3>1, <3>2 DEF m
  <2>3. /\ \A i \in 1..m : shown'[i] = shown[i]
        /\ \A i \in 1..k : shown'[m + i] = page[i]
    BY <1>1, <1>4, <2>1 DEF m
  <2>4. \A i \in 1..k : page[i] = d[i] /\ d[i] \in Behind
    <3>1. \A i \in 1..k : i \in 1..n
      BY <1>3, <2>1
    <3> QED
      BY <1>3, <1>4, <3>1, ElementOfSeq DEF n
  <2> QED
    BY <2>1, <2>2, <2>3, <2>4
<1>6. n > LIMIT => k = LIMIT /\ cursor' = d[LIMIT] /\ cursor' \in P!Task /\ more' = TRUE /\ LIMIT \in 1..n
  <2> SUFFICES ASSUME n > LIMIT
               PROVE  /\ k = LIMIT /\ cursor' = d[LIMIT] /\ cursor' \in P!Task /\ more' = TRUE
                      /\ LIMIT \in 1..n
    OBVIOUS
  <2>1. k = LIMIT
    BY <1>3, <1>4, BoundsAssumption
  <2>2. LIMIT \in 1..n
    BY <1>3, BoundsAssumption
  <2>3. cursor' = d[LIMIT] /\ more' = TRUE
    BY <1>4
  <2>4. d[LIMIT] \in P!Task
    BY <1>2, <1>3, <2>2, ElementOfSeq DEF n
  <2> QED
    BY <2>1, <2>2, <2>3, <2>4
<1>7. ~(n > LIMIT) => k = n /\ cursor' = 0 /\ more' = FALSE
  <2> SUFFICES ASSUME ~(n > LIMIT) PROVE k = n /\ cursor' = 0 /\ more' = FALSE
    OBVIOUS
  <2>1. k = n
    BY <1>3, <1>4, BoundsAssumption
  <2>2. cursor' = 0
    BY <1>4
  <2>3. (n > LIMIT) = FALSE
    OBVIOUS
  <2>4. more' = FALSE
    BY <1>4, <2>3
  <2> QED
    BY <2>1, <2>2, <2>4
<1>8. P!TypeOK'
  <2>1. Len(shown') < MAX_SHOWN + LIMIT
    BY <1>1, <1>5, BoundsAssumption DEF m
  <2> QED
    BY <1>1, <1>5, <1>6, <1>7, <2>1 DEF P!TypeOK
<1>9. P!SteadyShown'
  <2> SUFFICES ASSUME NEW t \in steady, \A i \in DOMAIN shown' : shown'[i] # t
               PROVE  more' = TRUE /\ t < cursor'
    BY <1>1 DEF P!SteadyShown
  <2>1. \A i \in DOMAIN shown : shown[i] # t
    <3> SUFFICES ASSUME NEW i \in DOMAIN shown PROVE shown[i] # t
      OBVIOUS
    <3>1. i \in 1..m
      BY <1>1 DEF m
    <3>2. i \in 1 .. m + k
      BY <1>1, <1>5, <3>1
    <3> QED
      BY <1>5, <3>1, <3>2
  <2>2. cursor = 0 \/ t < cursor
    BY <2>1 DEF WInv, P!SteadyShown
  <2>3. t \in Behind
    BY <1>1, <2>2 DEF Behind, P!After
  <2>4. PICK i \in 1..n : d[i] = t
    BY <1>3, <2>3
  <2>5. ~(i <= k)
    <3> SUFFICES ASSUME i <= k PROVE FALSE
      OBVIOUS
    <3>1. i \in 1..k /\ m + i \in 1 .. m + k
      BY <1>1, <1>3, <1>5
    <3>2. shown'[m + i] = d[i] /\ m + i \in DOMAIN shown'
      BY <1>5, <3>1
    <3> QED
      BY <2>4, <3>2
  <2>6. n > LIMIT /\ LIMIT < i
    BY <1>3, <1>5, <1>6, <1>7, <2>4, <2>5, BoundsAssumption
  <2> QED
    BY <1>3, <1>6, <2>4, <2>6
<1>10. CASE again' = TRUE
  BY <1>8, <1>9, <1>10 DEF WInv, ShownIsNewer, P!NewestFirst
<1>11. CASE again' # TRUE
  <2>1. again = FALSE /\ c = cursor
    BY <1>11
  <2>2. \A i \in 1..m, j \in 1..k : d[j] < shown[i]
    <3> SUFFICES ASSUME NEW i \in 1..m, NEW j \in 1..k PROVE d[j] < shown[i]
      OBVIOUS
    <3>1. shown[i] \in P!Task /\ d[j] \in Behind /\ d[j] \in Nat /\ shown[i] \in Nat
      <4>1. shown[i] \in P!Task
        BY <1>1, ElementOfSeq DEF m
      <4>2. d[j] \in Behind
        BY <1>5
      <4> QED
        BY <1>1, <1>2, <4>1, <4>2
    <3>2. shown # <<>>
      BY <1>1 DEF m
    <3>3. cursor # 0 /\ cursor <= shown[i] /\ cursor \in Nat
      BY <1>1, <2>1, <3>2 DEF WInv, ShownIsNewer, m
    <3>4. d[j] < cursor
      BY <1>2, <2>1, <3>1, <3>3
    <3> QED
      BY <3>1, <3>3, <3>4
  <2>3. P!NewestFirst'
    <3> SUFFICES ASSUME NEW i \in 1 .. m + k, NEW j \in 1 .. m + k, i < j
                 PROVE  shown'[i] > shown'[j]
      BY <1>5 DEF P!NewestFirst
    <3>1. CASE j <= m
      <4>1. i \in DOMAIN shown /\ j \in DOMAIN shown /\ i \in 1..m /\ j \in 1..m
        BY <1>1, <1>5, <3>1 DEF m
      <4> QED
        BY <1>5, <2>1, <4>1 DEF WInv, P!NewestFirst
    <3>2. CASE i <= m /\ m < j
      <4>1. i \in 1..m /\ j - m \in 1..k /\ m + (j - m) = j
        BY <1>1, <1>5, <3>2
      <4>2. d[j - m] < shown[i] /\ shown'[j] = d[j - m] /\ shown'[i] = shown[i]
        BY <1>5, <2>2, <4>1
      <4> QED
        BY <4>2
    <3>3. CASE m < i
      <4>1. i - m \in 1..k /\ j - m \in 1..k /\ m + (i - m) = i /\ m + (j - m) = j /\ i - m < j - m
        BY <1>1, <1>5, <3>3
      <4>2. i - m \in 1..n /\ j - m \in 1..n
        BY <1>3, <1>5, <4>1
      <4>3. d[j - m] < d[i - m]
        BY <1>3, <4>1, <4>2
      <4>4. shown'[i] = d[i - m] /\ shown'[j] = d[j - m]
        BY <1>5, <4>1
      <4> QED
        BY <4>3, <4>4
    <3> QED
      BY <1>1, <1>5, <3>1, <3>2, <3>3
  <2>4. ShownIsNewer'
    <3>1. ASSUME n > LIMIT, NEW i \in 1 .. m + k PROVE cursor' <= shown'[i]
      <4>1. cursor' = d[LIMIT] /\ LIMIT \in 1..k /\ LIMIT \in 1..n /\ d[LIMIT] \in Nat
        <5>1. k = LIMIT /\ cursor' = d[LIMIT] /\ LIMIT \in 1..n
          BY <1>6, <3>1
        <5>2. LIMIT \in 1..k
          BY <5>1, BoundsAssumption
        <5>3. d[LIMIT] \in Behind
          BY <1>5, <5>2
        <5>4. d[LIMIT] \in Nat
          BY <1>1, <1>2, <5>3
        <5> QED
          BY <5>1, <5>2, <5>4
      <4>2. CASE i <= m
        <5>1. i \in 1..m
          BY <1>1, <1>5, <4>2
        <5>3. shown[i] \in Nat
          BY <1>1, <5>1, ElementOfSeq DEF m
        <5> QED
          BY <1>5, <2>2, <4>1, <5>1, <5>3
      <4>3. CASE m < i
        <5>1. i - m \in 1..k /\ i - m \in 1..n /\ m + (i - m) = i /\ i - m <= LIMIT
          BY <1>1, <1>3, <1>5, <4>3, BoundsAssumption
        <5>2. shown'[i] = d[i - m] /\ d[i - m] \in Nat
          BY <1>1, <1>2, <1>5, <5>1
        <5>3. i - m = LIMIT \/ d[LIMIT] < d[i - m]
          BY <1>3, <4>1, <5>1, BoundsAssumption
        <5> QED
          BY <4>1, <5>2, <5>3
      <4> QED
        BY <1>1, <1>5, <4>2, <4>3
    <3>2. cursor' # 0 => n > LIMIT
      BY <1>7
    <3>3. cursor' = 0 => more' # TRUE
      BY <1>1, <1>6, <1>7
    <3> QED
      BY <1>5, <3>1, <3>2, <3>3 DEF ShownIsNewer
  <2> QED
    BY <1>8, <1>9, <2>3, <2>4 DEF WInv
<1> QED
  BY <1>10, <1>11

LEMMA NextWInv == WInv /\ [P!Next]_(P!vars) => WInv'
<1>1. ASSUME WInv, UNCHANGED P!vars PROVE WInv'
  BY <1>1 DEF WInv, P!TypeOK, ShownIsNewer, P!NewestFirst, P!SteadyShown, P!vars
<1>2. ASSUME WInv, NEW t \in P!Task, P!Enter(t) \/ P!Leave(t) PROVE WInv'
  <2>1. /\ UNCHANGED <<cursor, more, shown, again>> /\ steady' \subseteq steady
        /\ listed' \subseteq P!Task /\ steady' \subseteq listed'
    BY <1>2 DEF P!Enter, P!Leave, WInv, P!TypeOK
  <2>2. P!TypeOK'
    BY <1>2, <2>1 DEF WInv, P!TypeOK
  <2> QED
    BY <1>2, <2>1, <2>2 DEF WInv, ShownIsNewer, P!NewestFirst, P!SteadyShown
<1>3. ASSUME WInv, P!Fetch \/ P!FetchMangled PROVE WInv'
  <2>1. again \in BOOLEAN
    BY <1>3 DEF WInv, P!TypeOK
  <2>2. CASE P!Fetch
    <3>1. P!Page(cursor) /\ again' = again
      BY <2>2 DEF P!Fetch
    <3>2. again' = TRUE \/ again = FALSE
      BY <2>1, <3>1
    <3> QED
      BY <1>3, <2>1, <3>1, <3>2, PageWInv
  <2>3. CASE P!FetchMangled
    <3>1. P!Page(0) /\ again' = TRUE
      BY <2>3 DEF P!FetchMangled
    <3>2. PICK c \in {0, cursor} : P!Page(c)
      BY <3>1
    <3>3. again' \in BOOLEAN /\ (again' = TRUE \/ (again = FALSE /\ c = cursor))
      BY <3>1
    <3> HIDE DEF WInv
    <3> QED
      BY <1>3, <3>2, <3>3, PageWInv
  <2> QED
    BY <1>3, <2>2, <2>3
<1> QED
  BY <1>1, <1>2, <1>3 DEF P!Next

LEMMA WInvariance == P!Spec => []WInv
  BY InitWInv, NextWInv, PTL DEF P!Spec

\* Type correctness of a walk: there is a cursor only while there are more tasks
\* (services/task_service.py: list_tasks).
THEOREM PagesTypeCorrect == P!Spec => []P!TypeOK
<1>1. WInv => P!TypeOK
  BY DEF WInv
<1> QED
  BY <1>1, WInvariance, PTL

\* Behind walk shows the tasks from the newest on, none twice, and leaves out none that
\* was in the list all the while, whatever comes and goes between its pages
\* (services/task_service.py: list_tasks, _apply_cursor).
THEOREM WalksAreWhole == P!Spec => []WalkIsWhole
<1>1. WInv => WalkIsWhole
  BY DEF WInv, WalkIsWhole, P!WalkIsWhole
<1> QED
  BY <1>1, WInvariance, PTL

-----------------------------------------------------------------------------
\* A search.

LEMMA SameCountS == \A U : S!Cardinality(U) = Cardinality(U)
  BY DEF S!Cardinality, Cardinality

\* A query is a sequence of the kinds of its statements.
LEMMA QueriesAreSequences ==
    ASSUME NEW q \in S!Queries
    PROVE  Len(q) \in Nat \ {0} /\ DOMAIN q = 1..Len(q)
  BY DEF S!Queries

PageFits == IsFiniteSet(items) /\ Cardinality(items) <= LIMIT

EachOnce == \A i, j \in items : i[2] = j[2] => i = j

\* A page that still has room took all that its statements could find.
RoomMeansAll ==
    answer # "failed" /\ offset = 0 /\ Cardinality(items) < LIMIT =>
       \A n \in 1..next - 1 : matches[query[n]] \cap still \subseteq S!Found

\* A page that was answered has run all its statements.
AnsweredAtEnd == answer = "found" => next = Len(query) + 1

SInv == S!TypeOK /\ PageFits /\ EachOnce /\ RoomMeansAll /\ AnsweredAtEnd

LEMMA InitSInv == S!Init => SInv
<1> SUFFICES ASSUME S!Init PROVE SInv
  OBVIOUS
<1>1. query \in S!Queries /\ next = 1 /\ items = {} /\ answer = "none" /\ offset \in 0..MAX_OFFSET
  BY DEF S!Init
<1>2. Len(query) \in Nat \ {0}
  BY <1>1, QueriesAreSequences
<1>3. S!TypeOK
  <2>1. next \in 1..Len(query) + 1
    BY <1>1, <1>2
  <2>2. DOMAIN matches = S!Kinds /\ \A k \in S!Kinds : matches[k] \subseteq S!ItemsOf(k)
    BY DEF S!Init
  <2>3. still \subseteq Sought \cup Comment
    BY DEF S!Init
  <2> QED
    BY <1>1, <2>1, <2>2, <2>3 DEF S!TypeOK
<1>4. PageFits
  BY <1>1, FS_EmptySet, BoundsAssumption DEF PageFits
<1>5. EachOnce /\ AnsweredAtEnd
  BY <1>1 DEF EachOnce, AnsweredAtEnd
<1>6. RoomMeansAll
  BY <1>1 DEF RoomMeansAll
<1> QED
  BY <1>3, <1>4, <1>5, <1>6 DEF SInv

LEMMA EditSInv ==
    ASSUME SInv, NEW x \in Sought \cup Comment, S!Edit(x)
    PROVE  SInv'
<1>1. PICK K \in SUBSET {k \in S!Kinds : x \in S!ItemsOf(k)} :
         matches' = [k \in S!Kinds |-> (matches[k] \ {x}) \cup {y \in {x} : k \in K}]
  BY DEF S!Edit
<1>2. still' = still \ {x} /\ UNCHANGED <<query, next, offset, items, answer>>
  BY DEF S!Edit
<1>3. S!Kinds' = S!Kinds /\ S!Found' = S!Found
  BY <1>2 DEF S!Kinds, S!Found
<1>4. S!TypeOK'
  <2>1. DOMAIN matches' = S!Kinds' /\ \A k \in S!Kinds' : matches'[k] \subseteq S!ItemsOf(k)
    BY <1>1, <1>3 DEF SInv, S!TypeOK
  <2>2. still' \subseteq Sought \cup Comment
    BY <1>2 DEF SInv, S!TypeOK
  <2> QED
    BY <1>2, <2>1, <2>2 DEF SInv, S!TypeOK
<1>5. PageFits' /\ EachOnce' /\ AnsweredAtEnd'
  BY <1>2 DEF SInv, PageFits, EachOnce, AnsweredAtEnd
<1>6. RoomMeansAll'
  <2>1. \A k \in S!Kinds : matches'[k] \cap still' \subseteq matches[k] \cap still
    BY <1>1, <1>2
  <2>2. \A n \in 1..next - 1 : query[n] \in S!Kinds
    <3>1. query \in S!Queries /\ next \in 1..Len(query) + 1
      BY DEF SInv, S!TypeOK
    <3>2. \A n \in 1..next - 1 : n \in DOMAIN query
      BY <3>1, QueriesAreSequences
    <3> QED
      BY <3>2 DEF S!Kinds
  <2> QED
    BY <1>2, <1>3, <2>1, <2>2 DEF SInv, RoomMeansAll
<1> QED
  BY <1>4, <1>5, <1>6 DEF SInv

\* The rows a statement can find are finitely many.
LEMMA RowsAreFinite ==
    ASSUME SInv, next <= Len(query), NEW R \in SUBSET S!Rows
    PROVE  /\ query[next] \in S!Kinds /\ R \subseteq S!ItemsOf(query[next])
           /\ IsFiniteSet(S!Rows) /\ Cardinality(S!Rows) \in Nat
           /\ IsFiniteSet(R) /\ Cardinality(R) \in Nat
           /\ Cardinality(R) = Cardinality(S!Rows) => R = S!Rows
<1>1. query \in S!Queries /\ next \in 1..Len(query) + 1
  BY DEF SInv, S!TypeOK
<1>2. next \in DOMAIN query
  BY <1>1, QueriesAreSequences
<1>3. query[next] \in S!Kinds
  BY <1>2 DEF S!Kinds
<1>4. S!Rows \subseteq S!ItemsOf(query[next])
  BY <1>3 DEF S!Rows, SInv, S!TypeOK
<1>5. IsFiniteSet(S!ItemsOf(query[next]))
  BY BoundsAssumption DEF S!ItemsOf
<1>6. IsFiniteSet(S!Rows) /\ Cardinality(S!Rows) \in Nat
  BY <1>4, <1>5, FS_Subset, FS_CardinalityType
<1> QED
  BY <1>3, <1>4, <1>6, FS_Subset, FS_CardinalityType

\* Rows that are not on the page lengthen it by as many items as they are.
LEMMA PageGrows ==
    ASSUME PageFits, NEW k, NEW R, IsFiniteSet(R), R \cap S!Found = {}
    PROVE  LET new == items \cup {<<k, x>> : x \in R}
           IN  IsFiniteSet(new) /\ Cardinality(new) = Cardinality(items) + Cardinality(R)
<1> DEFINE pairs == {<<k, x>> : x \in R}
           f == [x \in R |-> <<k, x>>]
<1>1. f \in Bijection(R, pairs)
  BY DEF Bijection, Injection, Surjection, IsInjective
<1>2. IsFiniteSet(pairs) /\ Cardinality(pairs) = Cardinality(R)
  BY <1>1, FS_Bijection DEF ExistsBijection
<1>3. items \cap pairs = {}
  BY DEF S!Found
<1>4. Cardinality(items \cap pairs) = 0
  BY <1>3, FS_EmptySet
<1>5. /\ IsFiniteSet(items \cup pairs)
      /\ Cardinality(items \cup pairs) = Cardinality(items) + Cardinality(pairs) - Cardinality(items \cap pairs)
  BY <1>2, FS_Union DEF PageFits
<1>6. Cardinality(items) \in Nat /\ Cardinality(R) \in Nat
  BY FS_CardinalityType DEF PageFits
<1> QED
  BY <1>2, <1>4, <1>5, <1>6

LEMMA SelectSInv ==
    ASSUME SInv, S!Select
    PROVE  SInv'
<1> DEFINE k == query[next]
<1>1. PICK R \in SUBSET S!Rows : S!Taken(R) /\ items' = items \cup {<<k, x>> : x \in R}
  BY DEF S!Select
<1>2. /\ answer = "none" /\ next <= Len(query) /\ next' = next + 1
      /\ UNCHANGED <<matches, query, offset, answer, still>>
  BY DEF S!Select
<1>3. /\ query \in S!Queries /\ next \in 1..Len(query) + 1 /\ offset \in 0..MAX_OFFSET
      /\ Len(query) \in Nat \ {0}
  BY QueriesAreSequences DEF SInv, S!TypeOK
<1>4. /\ k \in S!Kinds /\ R \subseteq S!ItemsOf(k)
      /\ IsFiniteSet(R) /\ Cardinality(R) \in Nat /\ Cardinality(S!Rows) \in Nat
      /\ Cardinality(R) = Cardinality(S!Rows) => R = S!Rows
  BY <1>2, RowsAreFinite
<1>5. R \cap S!Found = {}
  BY DEF S!Rows
<1>6. IsFiniteSet(items') /\ Cardinality(items') = Cardinality(items) + Cardinality(R)
  BY <1>1, <1>4, <1>5, PageGrows DEF SInv
<1>7. Cardinality(items) \in Nat /\ Cardinality(items) <= LIMIT
  BY FS_CardinalityType DEF SInv, PageFits
<1>8. /\ Cardinality(R) <= LIMIT - Cardinality(items)
      /\ \/ Cardinality(R) = LIMIT - Cardinality(items)
         \/ Cardinality(R) = IF Cardinality(S!Rows) <= offset THEN 0 ELSE Cardinality(S!Rows) - offset
  BY <1>1, SameCountS DEF S!Taken, S!Room, S!Rest
<1>9. S!Found' = S!Found \cup R
  <2> HIDE DEF k
  <2>1. S!Found' = {i[2] : i \in items'} /\ S!Found = {i[2] : i \in items}
    BY DEF S!Found
  <2>2. \A x \in R : <<k, x>> \in items' /\ <<k, x>>[2] = x
    BY <1>1
  <2>3. \A i \in items' : i \in items \/ i[2] \in R
    BY <1>1
  <2>4. items \subseteq items'
    BY <1>1
  <2> QED
    BY <2>1, <2>2, <2>3, <2>4
<1>10. S!TypeOK'
  <2>1. next' \in 1..Len(query) + 1
    BY <1>2, <1>3
  <2>2. S!Kinds' = S!Kinds
    BY <1>2 DEF S!Kinds
  <2>3. \A i \in items' : \E n \in 1..next' - 1 : i[1] = query[n] /\ i[2] \in S!ItemsOf(i[1])
    <3>1. ASSUME NEW i \in items
          PROVE  \E n \in 1..next' - 1 : i[1] = query[n] /\ i[2] \in S!ItemsOf(i[1])
      <4>1. PICK n \in 1..next - 1 : i[1] = query[n] /\ i[2] \in S!ItemsOf(i[1])
        BY DEF SInv, S!TypeOK
      <4>2. n \in 1..next' - 1
        BY <1>2, <1>3
      <4> QED
        BY <4>1, <4>2
    <3>2. ASSUME NEW x \in R
          PROVE  \E n \in 1..next' - 1 : <<k, x>>[1] = query[n] /\ <<k, x>>[2] \in S!ItemsOf(<<k, x>>[1])
      <4>1. next \in 1..next' - 1
        BY <1>2, <1>3
      <4> QED
        BY <1>4, <4>1
    <3> QED
      BY <1>1, <3>1, <3>2
  <2> QED
    BY <1>2, <1>3, <2>1, <2>2, <2>3 DEF SInv, S!TypeOK
<1>11. PageFits'
  BY <1>4, <1>6, <1>7, <1>8, BoundsAssumption DEF PageFits
<1>12. EachOnce'
  BY <1>1, <1>5 DEF SInv, EachOnce, S!Found
<1>13. RoomMeansAll'
  <2> SUFFICES ASSUME offset = 0, Cardinality(items') < LIMIT, NEW n \in 1..next' - 1
               PROVE  matches[query[n]] \cap still \subseteq S!Found \cup R
    BY <1>2, <1>9 DEF RoomMeansAll
  <2>1. n \in 1..next - 1 \/ n = next
    BY <1>2, <1>3
  <2>2. CASE n \in 1..next - 1
    <3>1. Cardinality(items) < LIMIT
      BY <1>4, <1>6, <1>7, BoundsAssumption
    <3> QED
      BY <1>2, <2>2, <3>1 DEF SInv, RoomMeansAll
  <2>3. CASE n = next
    <3>1. Cardinality(R) = Cardinality(S!Rows)
      BY <1>4, <1>6, <1>7, <1>8, BoundsAssumption
    <3> QED
      BY <1>4, <2>3, <3>1 DEF S!Rows
  <2> QED
    BY <2>1, <2>2, <2>3
<1>14. AnsweredAtEnd'
  BY <1>2 DEF AnsweredAtEnd
<1> QED
  BY <1>10, <1>11, <1>12, <1>13, <1>14 DEF SInv

LEMMA RespondSInv ==
    ASSUME SInv, S!Respond
    PROVE  SInv'
<1>1. /\ answer = "none" /\ next > Len(query) /\ answer' = "found"
      /\ UNCHANGED <<matches, query, next, offset, items, still>>
  BY DEF S!Respond
<1>2. next = Len(query) + 1
  <2>1. query \in S!Queries /\ next \in 1..Len(query) + 1
    BY DEF SInv, S!TypeOK
  <2> QED
    BY <1>1, <2>1, QueriesAreSequences
<1>3. S!TypeOK'
  BY <1>1 DEF SInv, S!TypeOK, S!Kinds
<1>4. PageFits' /\ EachOnce' /\ AnsweredAtEnd'
  BY <1>1, <1>2 DEF SInv, PageFits, EachOnce, AnsweredAtEnd
<1>5. RoomMeansAll'
  BY <1>1 DEF SInv, RoomMeansAll, S!Found
<1> QED
  BY <1>3, <1>4, <1>5 DEF SInv

LEMMA FailSInv ==
    ASSUME SInv, S!Fail
    PROVE  SInv'
<1>1. answer' = "failed" /\ items' = {} /\ UNCHANGED <<matches, query, next, offset, still>>
  BY DEF S!Fail
<1>2. S!TypeOK'
  BY <1>1 DEF SInv, S!TypeOK, S!Kinds
<1>3. PageFits'
  BY <1>1, FS_EmptySet, BoundsAssumption DEF PageFits
<1>4. EachOnce' /\ RoomMeansAll' /\ AnsweredAtEnd'
  BY <1>1 DEF EachOnce, RoomMeansAll, AnsweredAtEnd
<1> QED
  BY <1>2, <1>3, <1>4 DEF SInv

LEMMA NextSInv == SInv /\ [S!Next]_(S!vars) => SInv'
<1>1. ASSUME SInv, UNCHANGED S!vars PROVE SInv'
  BY <1>1 DEF SInv, S!TypeOK, S!Kinds, PageFits, EachOnce, RoomMeansAll, AnsweredAtEnd, S!Found, S!vars
<1> QED
  BY <1>1, EditSInv, SelectSInv, RespondSInv, FailSInv DEF S!Next

LEMMA SInvariance == S!Spec => []SInv
  BY InitSInv, NextSInv, PTL DEF S!Spec

\* Type correctness of a search: what it shows its statements have found
\* (services/search_service.py).
THEOREM SearchTypeCorrect == S!Spec => []S!TypeOK
<1>1. SInv => S!TypeOK
  BY DEF SInv
<1> QED
  BY <1>1, SInvariance, PTL

\* A page of a search has nothing twice and is not too long, and a first page with
\* room left holds all that matched all the while
\* (services/search_service.py: _search_fulltext).
THEOREM PagesAreWhole == S!Spec => []PageIsWhole
<1>1. SInv => S!PageHoldsEachOnce
  BY SameCountS DEF SInv, PageFits, EachOnce, S!PageHoldsEachOnce
<1>2. SInv => S!ShortPageHoldsAll
  <2> SUFFICES ASSUME SInv, answer = "found", offset = 0, Cardinality(items) < LIMIT, NEW k \in S!Kinds
               PROVE  matches[k] \cap still \subseteq S!Found
    BY SameCountS DEF S!ShortPageHoldsAll
  <2>1. query \in S!Queries /\ next = Len(query) + 1
    BY DEF SInv, S!TypeOK, AnsweredAtEnd
  <2>2. PICK n \in DOMAIN query : k = query[n]
    BY DEF S!Kinds
  <2>3. n \in 1..next - 1
    BY <2>1, <2>2, QueriesAreSequences
  <2> QED
    BY <2>2, <2>3 DEF SInv, RoomMeansAll
<1>3. SInv => PageIsWhole
  BY <1>1, <1>2 DEF PageIsWhole, S!PageIsWhole
<1> QED
  BY <1>3, SInvariance, PTL

-----------------------------------------------------------------------------
\* The dashboard and its cache.

\* Until the second count, the first is that of the project as it is now, unless
\* the project was changed since.
TotalsTell ==
    \A r \in Request : dStep[r] = "completed" =>
       result[r].mixed = TRUE \/ result[r].total = D!Count(project[r], {"open", "finished"})

\* A result that is about to be stored.
ResultsRate ==
    \A r \in Request : dStep[r] = "store" =>
       result[r].mixed = TRUE \/ result[r].completed <= result[r].total

\* What was told of a project is not forgotten.
FloorsTold == \A r \in Request : floor[r] <= told[project[r]]

\* An entry that is not late is the newest that was told.
AgesTold == \A p \in D!Stored : told[p] <= cache[p].age \/ p \in late

DInv == D!TypeOK /\ TotalsTell /\ ResultsRate /\ D!RateUnlessMixed /\ FloorsTold /\ AgesTold

LEMMA ZeroIsAge == 0 \in 0..MAX_AGE
  BY BoundsAssumption

\* A request that counts has a result, and with another count it is still one.
LEMMA CountingHasResult ==
    ASSUME D!TypeOK, NEW r \in Request, dStep[r] \in {"total", "completed", "store"}
    PROVE  result[r] \in D!Result
  BY DEF D!TypeOK

LEMMA ResultsStayResults ==
    ASSUME NEW x \in D!Result
    PROVE  /\ [x EXCEPT !.mixed = TRUE] \in D!Result
           /\ \A n \in 0..1 : [x EXCEPT !.total = n] \in D!Result /\ [x EXCEPT !.completed = n] \in D!Result
           /\ x # NoResult
<1>1. x # NoResult
  BY ValuesAssumption
<1> QED
  BY <1>1 DEF D!Result

LEMMA CountsAreSmall == \A p, R : D!Count(p, R) \in 0..1
  BY DEF D!Count

LEMMA FirstResult ==
    ASSUME D!TypeOK, NEW p \in Project
    PROVE  [total |-> 0, completed |-> 0, age |-> age[p], mixed |-> FALSE] \in D!Result
<1>1. age[p] \in 0..MAX_AGE
  BY DEF D!TypeOK
<1> QED
  BY <1>1 DEF D!Result

\* What was told of a project grows with what is stored.
LEMMA StoreTells ==
    ASSUME DInv, NEW r \in Request, D!Store(r)
    PROVE  /\ told' \in [Project -> 0..MAX_AGE]
           /\ \A p \in Project : told[p] <= told'[p] /\ (p # project[r] => told'[p] = told[p])
           /\ told'[project[r]] <= result[r].age \/ project[r] \in late'
<1> DEFINE p == project[r]
           n == result[r].age
<1>1. D!TypeOK /\ p \in Project /\ told \in [Project -> 0..MAX_AGE] /\ n \in 0..MAX_AGE
  BY CountingHasResult DEF DInv, D!TypeOK, D!Result, D!Store
<1>2. /\ told' = [told EXCEPT ![p] = IF n > told[p] THEN n ELSE told[p]]
      /\ late' = (late \ (D!Evicted \cup {p})) \cup {q \in {p} : n < told[p]}
  BY DEF D!Store
<1> HIDE DEF p, n
<1>3. CASE n > told[p]
  <2>1. told' = [told EXCEPT ![p] = n]
    BY <1>1, <1>2, <1>3
  <2>2. told' \in [Project -> 0..MAX_AGE] /\ told'[p] = n /\ \A q \in Project \ {p} : told'[q] = told[q]
    BY <1>1, <2>1
  <2>3. told[p] <= n /\ \A q \in Project : told[q] <= told[q]
    BY <1>1, <1>3, BoundsAssumption
  <2> QED
    BY <1>1, <2>2, <2>3, BoundsAssumption DEF p, n
<1>4. CASE ~(n > told[p])
  <2>1. told' = told
    BY <1>1, <1>2, <1>4
  <2>2. n < told[p] => p \in late'
    BY <1>2
  <2>3. told[p] <= n \/ p \in late'
    BY <1>1, <2>2, BoundsAssumption
  <2> QED
    BY <1>1, <2>1, <2>3, BoundsAssumption DEF p, n
<1> QED
  BY <1>1, <1>3, <1>4 DEF p, n

LEMMA InitDInv == D!Init => DInv
<1> SUFFICES ASSUME D!Init PROVE DInv
  OBVIOUS
<1> USE ValuesAssumption, BoundsAssumption DEF D!Init
<1>1. D!TypeOK
  BY DEF D!TypeOK, D!Stored, D!Status
<1>2. TotalsTell /\ ResultsRate /\ D!RateUnlessMixed /\ AgesTold
  BY DEF TotalsTell, ResultsRate, D!RateUnlessMixed, AgesTold, D!Stored
<1>3. FloorsTold
  BY DEF FloorsTold
<1> QED
  BY <1>1, <1>2, <1>3 DEF DInv

LEMMA ChangeDInv ==
    ASSUME DInv, NEW p \in Project, D!Change(p)
    PROVE  DInv'
<1> USE DEF D!Change, D!rows, D!cached
<1>1. D!TypeOK'
  <2>1. task' \in [Project -> D!Status] /\ age' \in [Project -> 0..MAX_AGE]
    <3>1. task \in [Project -> D!Status] /\ age \in [Project -> 0..MAX_AGE]
      BY DEF DInv, D!TypeOK
    <3>2. age[p] + 1 \in 0..MAX_AGE
      BY <3>1, BoundsAssumption
    <3> QED
      BY <3>1, <3>2
  <2>2. cache' \in [Project -> D!Result \cup {NoResult}]
    BY DEF DInv, D!TypeOK
  <2>3. expired' \subseteq D!Stored' /\ late' \subseteq D!Stored'
    BY DEF DInv, D!TypeOK, D!Stored
  <2>4. dStep' \in [Request -> {"idle", "look", "total", "completed", "store"}] /\ project' \in [Request -> Project]
    BY DEF DInv, D!TypeOK
  <2>5. result' \in [Request -> D!Result \cup {NoResult}]
    <3>1. D!TypeOK
      BY DEF DInv
    <3>2. \A r \in Request : dStep[r] = "completed" => [result[r] EXCEPT !.mixed = TRUE] \in D!Result
      BY <3>1, CountingHasResult, ResultsStayResults
    <3> QED
      BY <3>1, <3>2 DEF D!TypeOK
  <2>6. told' \in [Project -> 0..MAX_AGE] /\ floor' \in [Request -> 0..MAX_AGE]
    BY DEF DInv, D!TypeOK
  <2>7. \A q \in Request : result'[q] = NoResult <=> dStep'[q] \in {"idle", "look"}
    <3>1. D!TypeOK
      BY DEF DInv
    <3>2. \A r \in Request : dStep[r] = "completed" => [result[r] EXCEPT !.mixed = TRUE] # NoResult
      BY <3>1, CountingHasResult, ResultsStayResults, ValuesAssumption
    <3> QED
      BY <3>1, <3>2 DEF D!TypeOK
  <2> QED
    BY <2>1, <2>2, <2>3, <2>4, <2>5, <2>6, <2>7 DEF D!TypeOK
<1>2. TotalsTell'
  BY DEF DInv, D!TypeOK, TotalsTell, D!Count
<1>3. ResultsRate'
  BY DEF DInv, D!TypeOK, TotalsTell, ResultsRate, D!Count
<1>4. D!RateUnlessMixed'
  BY DEF DInv, D!TypeOK, ResultsRate, D!RateUnlessMixed, D!Stored, D!Entry
<1>5. FloorsTold'
  BY DEF DInv, D!TypeOK, FloorsTold
<1>6. AgesTold'
  BY DEF DInv, D!TypeOK, AgesTold, D!Stored, D!Entry
<1> QED
  BY <1>1, <1>2, <1>3, <1>4, <1>5, <1>6 DEF DInv

LEMMA ExpireDInv ==
    ASSUME DInv, NEW p \in Project, D!Expire(p)
    PROVE  DInv'
<1> USE DEF D!Expire, D!rows, D!cached
<1>1. D!TypeOK'
  BY DEF DInv, D!TypeOK, D!Stored, D!Result
<1>2. TotalsTell'
  BY DEF DInv, D!TypeOK, TotalsTell, D!Count
<1>3. ResultsRate'
  BY DEF DInv, D!TypeOK, TotalsTell, ResultsRate, D!Count
<1>4. D!RateUnlessMixed'
  BY DEF DInv, D!TypeOK, ResultsRate, D!RateUnlessMixed, D!Stored, D!Entry
<1>5. FloorsTold'
  BY DEF DInv, D!TypeOK, FloorsTold
<1>6. AgesTold'
  BY DEF DInv, D!TypeOK, AgesTold, D!Stored, D!Entry
<1> QED
  BY <1>1, <1>2, <1>3, <1>4, <1>5, <1>6 DEF DInv

LEMMA BeginDInv ==
    ASSUME DInv, NEW r \in Request, NEW p \in Project, D!Begin(r, p)
    PROVE  DInv'
<1> USE DEF D!Begin, D!rows, D!cached
<1>1. D!TypeOK'
  BY DEF DInv, D!TypeOK, D!Stored, D!Result
<1>2. TotalsTell'
  BY DEF DInv, D!TypeOK, TotalsTell, D!Count
<1>3. ResultsRate'
  BY DEF DInv, D!TypeOK, TotalsTell, ResultsRate, D!Count
<1>4. D!RateUnlessMixed'
  BY DEF DInv, D!TypeOK, ResultsRate, D!RateUnlessMixed, D!Stored, D!Entry
<1>5. FloorsTold'
  BY DEF DInv, D!TypeOK, FloorsTold
<1>6. AgesTold'
  BY DEF DInv, D!TypeOK, AgesTold, D!Stored, D!Entry
<1> QED
  BY <1>1, <1>2, <1>3, <1>4, <1>5, <1>6 DEF DInv

LEMMA HitDInv ==
    ASSUME DInv, NEW r \in Request, D!Hit(r)
    PROVE  DInv'
<1> USE DEF D!Hit, D!End, D!rows, D!cached
<1>1. D!TypeOK'
  <2>1. task' \in [Project -> D!Status] /\ age' \in [Project -> 0..MAX_AGE]
    BY DEF DInv, D!TypeOK
  <2>2. cache' \in [Project -> D!Result \cup {NoResult}]
    BY DEF DInv, D!TypeOK
  <2>3. expired' \subseteq D!Stored' /\ late' \subseteq D!Stored'
    BY DEF DInv, D!TypeOK, D!Stored
  <2>4. dStep' \in [Request -> {"idle", "look", "total", "completed", "store"}] /\ project' \in [Request -> Project]
    BY DEF DInv, D!TypeOK
  <2>5. result' \in [Request -> D!Result \cup {NoResult}]
    BY DEF DInv, D!TypeOK
  <2>6. told' \in [Project -> 0..MAX_AGE] /\ floor' \in [Request -> 0..MAX_AGE]
    BY ZeroIsAge DEF DInv, D!TypeOK
  <2>7. \A q \in Request : result'[q] = NoResult <=> dStep'[q] \in {"idle", "look"}
    BY DEF DInv, D!TypeOK
  <2> QED
    BY <2>1, <2>2, <2>3, <2>4, <2>5, <2>6, <2>7 DEF D!TypeOK
<1>2. TotalsTell'
  BY DEF DInv, D!TypeOK, TotalsTell, D!Count
<1>3. ResultsRate'
  BY DEF DInv, D!TypeOK, TotalsTell, ResultsRate, D!Count
<1>4. D!RateUnlessMixed'
  BY DEF DInv, D!TypeOK, ResultsRate, D!RateUnlessMixed, D!Stored, D!Entry
<1>5. FloorsTold'
  BY DEF DInv, D!TypeOK, FloorsTold
<1>6. AgesTold'
  BY DEF DInv, D!TypeOK, AgesTold, D!Stored, D!Entry
<1> QED
  BY <1>1, <1>2, <1>3, <1>4, <1>5, <1>6 DEF DInv

LEMMA MissDInv ==
    ASSUME DInv, NEW r \in Request, D!Miss(r)
    PROVE  DInv'
<1> USE DEF D!Miss, D!rows, D!cached
<1>1. D!TypeOK'
  <2>1. task' \in [Project -> D!Status] /\ age' \in [Project -> 0..MAX_AGE]
    BY DEF DInv, D!TypeOK
  <2>2. cache' \in [Project -> D!Result \cup {NoResult}]
    BY DEF DInv, D!TypeOK
  <2>3. expired' \subseteq D!Stored' /\ late' \subseteq D!Stored'
    BY DEF DInv, D!TypeOK, D!Stored
  <2>4. dStep' \in [Request -> {"idle", "look", "total", "completed", "store"}] /\ project' \in [Request -> Project]
    BY DEF DInv, D!TypeOK
  <2>5. result' \in [Request -> D!Result \cup {NoResult}]
    <3>1. D!TypeOK
      BY DEF DInv
    <3>2. [total |-> 0, completed |-> 0, age |-> age[project[r]], mixed |-> FALSE] \in D!Result
      BY <3>1, FirstResult DEF D!TypeOK
    <3> QED
      BY <3>1, <3>2 DEF D!TypeOK
  <2>6. told' \in [Project -> 0..MAX_AGE] /\ floor' \in [Request -> 0..MAX_AGE]
    BY ZeroIsAge DEF DInv, D!TypeOK
  <2>7. \A q \in Request : result'[q] = NoResult <=> dStep'[q] \in {"idle", "look"}
    <3>1. D!TypeOK
      BY DEF DInv
    <3>2. [total |-> 0, completed |-> 0, age |-> age[project[r]], mixed |-> FALSE] # NoResult
      BY <3>1, FirstResult, ValuesAssumption DEF D!TypeOK
    <3> QED
      BY <3>1, <3>2 DEF D!TypeOK
  <2> QED
    BY <2>1, <2>2, <2>3, <2>4, <2>5, <2>6, <2>7 DEF D!TypeOK
<1>2. TotalsTell'
  BY DEF DInv, D!TypeOK, TotalsTell, D!Count
<1>3. ResultsRate'
  BY DEF DInv, D!TypeOK, TotalsTell, ResultsRate, D!Count
<1>4. D!RateUnlessMixed'
  BY DEF DInv, D!TypeOK, ResultsRate, D!RateUnlessMixed, D!Stored, D!Entry
<1>5. FloorsTold'
  BY DEF DInv, D!TypeOK, FloorsTold
<1>6. AgesTold'
  BY DEF DInv, D!TypeOK, AgesTold, D!Stored, D!Entry
<1> QED
  BY <1>1, <1>2, <1>3, <1>4, <1>5, <1>6 DEF DInv

LEMMA CountTotalDInv ==
    ASSUME DInv, NEW r \in Request, D!CountTotal(r)
    PROVE  DInv'
<1> USE DEF D!CountTotal, D!rows, D!cached
<1>1. D!TypeOK'
  <2>1. task' \in [Project -> D!Status] /\ age' \in [Project -> 0..MAX_AGE]
    BY DEF DInv, D!TypeOK
  <2>2. cache' \in [Project -> D!Result \cup {NoResult}]
    BY DEF DInv, D!TypeOK
  <2>3. expired' \subseteq D!Stored' /\ late' \subseteq D!Stored'
    BY DEF DInv, D!TypeOK, D!Stored
  <2>4. dStep' \in [Request -> {"idle", "look", "total", "completed", "store"}] /\ project' \in [Request -> Project]
    BY DEF DInv, D!TypeOK
  <2>5. result' \in [Request -> D!Result \cup {NoResult}]
    <3>1. D!TypeOK
      BY DEF DInv
    <3>2. [result[r] EXCEPT !.total = D!Count(project[r], {"open", "finished"})] \in D!Result
      BY <3>1, CountingHasResult, ResultsStayResults, CountsAreSmall, ValuesAssumption DEF D!TypeOK
    <3>3. result' = [result EXCEPT ![r] = [result[r] EXCEPT !.total = D!Count(project[r], {"open", "finished"})]] /\ dStep' = [dStep EXCEPT ![r] = "completed"]
      OBVIOUS
    <3> QED
      BY <3>1, <3>2, <3>3 DEF D!TypeOK
  <2>6. told' \in [Project -> 0..MAX_AGE] /\ floor' \in [Request -> 0..MAX_AGE]
    BY DEF DInv, D!TypeOK
  <2>7. \A q \in Request : result'[q] = NoResult <=> dStep'[q] \in {"idle", "look"}
    <3>1. D!TypeOK
      BY DEF DInv
    <3>2. [result[r] EXCEPT !.total = D!Count(project[r], {"open", "finished"})] # NoResult
      BY <3>1, CountingHasResult, ResultsStayResults, CountsAreSmall, ValuesAssumption DEF D!TypeOK
    <3>3. result' = [result EXCEPT ![r] = [result[r] EXCEPT !.total = D!Count(project[r], {"open", "finished"})]] /\ dStep' = [dStep EXCEPT ![r] = "completed"]
      OBVIOUS
    <3> QED
      BY <3>1, <3>2, <3>3 DEF D!TypeOK
  <2> QED
    BY <2>1, <2>2, <2>3, <2>4, <2>5, <2>6, <2>7 DEF D!TypeOK
<1>2. TotalsTell'
  BY DEF DInv, D!TypeOK, TotalsTell, D!Count
<1>3. ResultsRate'
  BY DEF DInv, D!TypeOK, TotalsTell, ResultsRate, D!Count
<1>4. D!RateUnlessMixed'
  BY DEF DInv, D!TypeOK, ResultsRate, D!RateUnlessMixed, D!Stored, D!Entry
<1>5. FloorsTold'
  BY DEF DInv, D!TypeOK, FloorsTold
<1>6. AgesTold'
  BY DEF DInv, D!TypeOK, AgesTold, D!Stored, D!Entry
<1> QED
  BY <1>1, <1>2, <1>3, <1>4, <1>5, <1>6 DEF DInv

LEMMA CountCompletedDInv ==
    ASSUME DInv, NEW r \in Request, D!CountCompleted(r)
    PROVE  DInv'
<1> USE DEF D!CountCompleted, D!rows, D!cached
<1>1. D!TypeOK'
  <2>1. task' \in [Project -> D!Status] /\ age' \in [Project -> 0..MAX_AGE]
    BY DEF DInv, D!TypeOK
  <2>2. cache' \in [Project -> D!Result \cup {NoResult}]
    BY DEF DInv, D!TypeOK
  <2>3. expired' \subseteq D!Stored' /\ late' \subseteq D!Stored'
    BY DEF DInv, D!TypeOK, D!Stored
  <2>4. dStep' \in [Request -> {"idle", "look", "total", "completed", "store"}] /\ project' \in [Request -> Project]
    BY DEF DInv, D!TypeOK
  <2>5. result' \in [Request -> D!Result \cup {NoResult}]
    <3>1. D!TypeOK
      BY DEF DInv
    <3>2. [result[r] EXCEPT !.completed = D!Count(project[r], {"finished"})] \in D!Result
      BY <3>1, CountingHasResult, ResultsStayResults, CountsAreSmall, ValuesAssumption DEF D!TypeOK
    <3>3. result' = [result EXCEPT ![r] = [result[r] EXCEPT !.completed = D!Count(project[r], {"finished"})]] /\ dStep' = [dStep EXCEPT ![r] = "store"]
      OBVIOUS
    <3> QED
      BY <3>1, <3>2, <3>3 DEF D!TypeOK
  <2>6. told' \in [Project -> 0..MAX_AGE] /\ floor' \in [Request -> 0..MAX_AGE]
    BY DEF DInv, D!TypeOK
  <2>7. \A q \in Request : result'[q] = NoResult <=> dStep'[q] \in {"idle", "look"}
    <3>1. D!TypeOK
      BY DEF DInv
    <3>2. [result[r] EXCEPT !.completed = D!Count(project[r], {"finished"})] # NoResult
      BY <3>1, CountingHasResult, ResultsStayResults, CountsAreSmall, ValuesAssumption DEF D!TypeOK
    <3>3. result' = [result EXCEPT ![r] = [result[r] EXCEPT !.completed = D!Count(project[r], {"finished"})]] /\ dStep' = [dStep EXCEPT ![r] = "store"]
      OBVIOUS
    <3> QED
      BY <3>1, <3>2, <3>3 DEF D!TypeOK
  <2> QED
    BY <2>1, <2>2, <2>3, <2>4, <2>5, <2>6, <2>7 DEF D!TypeOK
<1>2. TotalsTell'
  BY DEF DInv, D!TypeOK, TotalsTell, D!Count
<1>3. ResultsRate'
  BY DEF DInv, D!TypeOK, TotalsTell, ResultsRate, D!Count
<1>4. D!RateUnlessMixed'
  BY DEF DInv, D!TypeOK, ResultsRate, D!RateUnlessMixed, D!Stored, D!Entry
<1>5. FloorsTold'
  BY DEF DInv, D!TypeOK, FloorsTold
<1>6. AgesTold'
  BY DEF DInv, D!TypeOK, AgesTold, D!Stored, D!Entry
<1> QED
  BY <1>1, <1>2, <1>3, <1>4, <1>5, <1>6 DEF DInv

LEMMA StoreDInv ==
    ASSUME DInv, NEW r \in Request, D!Store(r)
    PROVE  DInv'
<1> USE DEF D!Store, D!End, D!rows, D!cached
<1>1. D!TypeOK'
  <2>1. task' \in [Project -> D!Status] /\ age' \in [Project -> 0..MAX_AGE]
    BY DEF DInv, D!TypeOK
  <2>2. cache' \in [Project -> D!Result \cup {NoResult}]
    <3>1. D!TypeOK
      BY DEF DInv
    <3>2. cache' = [q \in Project |-> D!Entry(r, q)] /\ result[r] \in D!Result
      BY <3>1, CountingHasResult
    <3> QED
      BY <3>1, <3>2 DEF D!TypeOK, D!Entry
  <2>3. expired' \subseteq D!Stored' /\ late' \subseteq D!Stored'
    <3> DEFINE p == project[r]
    <3>1. D!TypeOK
      BY DEF DInv
    <3>2. result[r] # NoResult
      BY <3>1, CountingHasResult, ResultsStayResults
    <3>3. \A q \in D!Stored : q # p /\ q \notin D!Evicted => q \in D!Stored'
      BY <3>1 DEF D!TypeOK, D!Stored, D!Entry
    <3>4. p \in D!Stored'
      BY <3>1, <3>2 DEF D!TypeOK, D!Stored, D!Entry
    <3>5. expired' = expired \ (D!Evicted \cup {p}) /\ late' \subseteq (late \ D!Evicted) \cup {p}
      OBVIOUS
    <3> QED
      BY <3>1, <3>3, <3>4, <3>5 DEF D!TypeOK
  <2>4. dStep' \in [Request -> {"idle", "look", "total", "completed", "store"}] /\ project' \in [Request -> Project]
    BY DEF DInv, D!TypeOK
  <2>5. result' \in [Request -> D!Result \cup {NoResult}]
    BY DEF DInv, D!TypeOK
  <2>6. told' \in [Project -> 0..MAX_AGE] /\ floor' \in [Request -> 0..MAX_AGE]
    <3>1. floor \in [Request -> 0..MAX_AGE] /\ floor' = [floor EXCEPT ![r] = 0]
      BY DEF DInv, D!TypeOK
    <3> QED
      BY <3>1, StoreTells, ZeroIsAge
  <2>7. \A q \in Request : result'[q] = NoResult <=> dStep'[q] \in {"idle", "look"}
    BY DEF DInv, D!TypeOK
  <2> QED
    BY <2>1, <2>2, <2>3, <2>4, <2>5, <2>6, <2>7 DEF D!TypeOK
<1>2. TotalsTell'
  BY DEF DInv, D!TypeOK, TotalsTell, D!Count
<1>3. ResultsRate'
  BY DEF DInv, D!TypeOK, TotalsTell, ResultsRate, D!Count
<1>4. D!RateUnlessMixed'
  BY DEF DInv, D!TypeOK, ResultsRate, D!RateUnlessMixed, D!Stored, D!Entry
<1>5. FloorsTold'
  <2>1. /\ floor \in [Request -> 0..MAX_AGE] /\ floor' = [floor EXCEPT ![r] = 0] /\ project' = project
        /\ told \in [Project -> 0..MAX_AGE] /\ project \in [Request -> Project]
    BY DEF DInv, D!TypeOK
  <2>2. /\ told' \in [Project -> 0..MAX_AGE] /\ \A p \in Project : told[p] <= told'[p]
        /\ \A q \in Request : floor[q] <= told[project[q]]
    BY StoreTells DEF DInv, FloorsTold
  <2> HIDE DEF D!Store, D!End, D!rows, D!cached
  <2>3. ASSUME NEW q \in Request PROVE floor'[q] <= told'[project[q]]
    <3>1. told[project[q]] <= told'[project[q]] /\ floor'[q] \in {0, floor[q]}
      BY <2>1, <2>2
    <3> QED
      BY <2>1, <2>2, <3>1, BoundsAssumption
  <2> QED
    BY <2>1, <2>3 DEF FloorsTold
<1>6. AgesTold'
  <2> SUFFICES ASSUME NEW q \in D!Stored', q \notin late' PROVE told'[q] <= cache'[q].age
    BY DEF AgesTold
  <2>1. CASE q = project[r]
    <3>1. cache'[q] = result[r]
      BY <2>1 DEF D!Stored, D!Entry
    <3> QED
      BY <2>1, <3>1, StoreTells
  <2>2. CASE q # project[r]
    <3>1. q \in Project /\ q \notin D!Evicted /\ cache'[q] = cache[q] /\ q \in D!Stored /\ q \notin late
      BY <2>2 DEF D!Stored, D!Entry
    <3> QED
      BY <2>2, <3>1, StoreTells DEF DInv, AgesTold
  <2> QED
    BY <2>1, <2>2
<1> QED
  BY <1>1, <1>2, <1>3, <1>4, <1>5, <1>6 DEF DInv

LEMMA FailDInv ==
    ASSUME DInv, NEW r \in Request, D!Fail(r)
    PROVE  DInv'
<1> USE DEF D!Fail, D!End, D!rows, D!cached
<1>1. D!TypeOK'
  <2>1. task' \in [Project -> D!Status] /\ age' \in [Project -> 0..MAX_AGE]
    BY DEF DInv, D!TypeOK
  <2>2. cache' \in [Project -> D!Result \cup {NoResult}]
    BY DEF DInv, D!TypeOK
  <2>3. expired' \subseteq D!Stored' /\ late' \subseteq D!Stored'
    BY DEF DInv, D!TypeOK, D!Stored
  <2>4. dStep' \in [Request -> {"idle", "look", "total", "completed", "store"}] /\ project' \in [Request -> Project]
    BY DEF DInv, D!TypeOK
  <2>5. result' \in [Request -> D!Result \cup {NoResult}]
    BY DEF DInv, D!TypeOK
  <2>6. told' \in [Project -> 0..MAX_AGE] /\ floor' \in [Request -> 0..MAX_AGE]
    BY ZeroIsAge DEF DInv, D!TypeOK
  <2>7. \A q \in Request : result'[q] = NoResult <=> dStep'[q] \in {"idle", "look"}
    BY DEF DInv, D!TypeOK
  <2> QED
    BY <2>1, <2>2, <2>3, <2>4, <2>5, <2>6, <2>7 DEF D!TypeOK
<1>2. TotalsTell'
  BY DEF DInv, D!TypeOK, TotalsTell, D!Count
<1>3. ResultsRate'
  BY DEF DInv, D!TypeOK, TotalsTell, ResultsRate, D!Count
<1>4. D!RateUnlessMixed'
  BY DEF DInv, D!TypeOK, ResultsRate, D!RateUnlessMixed, D!Stored, D!Entry
<1>5. FloorsTold'
  BY DEF DInv, D!TypeOK, FloorsTold
<1>6. AgesTold'
  BY DEF DInv, D!TypeOK, AgesTold, D!Stored, D!Entry
<1> QED
  BY <1>1, <1>2, <1>3, <1>4, <1>5, <1>6 DEF DInv

LEMMA NextDInv == DInv /\ [D!Next]_(D!vars) => DInv'
<1>1. ASSUME DInv, UNCHANGED D!vars PROVE DInv'
  BY <1>1 DEF DInv, D!TypeOK, TotalsTell, ResultsRate, D!RateUnlessMixed, FloorsTold, AgesTold, D!Stored,
              D!Count, D!vars, D!rows, D!cached
<1> QED
  BY <1>1, ChangeDInv, ExpireDInv, BeginDInv, HitDInv, MissDInv, CountTotalDInv, CountCompletedDInv,
     StoreDInv, FailDInv DEF D!Next

LEMMA DInvariance == D!Spec => []DInv
  BY InitDInv, NextDInv, PTL DEF D!Spec

\* Type correctness of the dashboard: a request has a result exactly while it counts
\* (api/dashboard.py: get_dashboard).
THEOREM DashboardTypeCorrect == D!Spec => []D!TypeOK
<1>1. DInv => D!TypeOK
  BY DEF DInv
<1> QED
  BY <1>1, DInvariance, PTL

\* The dashboard does not tell of more finished tasks than there are, nor go back to
\* an older state, unless the project was changed between two counts or a result
\* came late (api/dashboard.py: get_dashboard, utils/cache.py).
THEOREM DashboardTells == D!Spec => []ToldUnlessMixedOrLate
<1>1. DInv => D!NeverBackUnlessLate
  <2> SUFFICES ASSUME DInv, NEW r \in Request, project[r] \in D!Stored, project[r] \notin late
               PROVE  floor[r] <= cache[project[r]].age
    BY DEF D!NeverBackUnlessLate
  <2>1. floor[r] <= told[project[r]] /\ told[project[r]] <= cache[project[r]].age
    BY DEF DInv, FloorsTold, AgesTold
  <2>2. project[r] \in Project /\ told[project[r]] \in 0..MAX_AGE /\ floor[r] \in 0..MAX_AGE
    BY DEF DInv, D!TypeOK
  <2>3. cache[project[r]].age \in 0..MAX_AGE
    BY <2>2 DEF DInv, D!TypeOK, D!Stored, D!Result
  <2> QED
    BY <2>1, <2>2, <2>3, BoundsAssumption
<1>2. DInv => ToldUnlessMixedOrLate
  BY <1>1 DEF DInv, ToldUnlessMixedOrLate, D!ToldUnlessMixedOrLate
<1> QED
  BY <1>2, DInvariance, PTL

-----------------------------------------------------------------------------
\* The parts side by side: whatever one does, the others stand still.
LEMMA PartsAreThemselves ==
    MCSpec => /\ Spec /\ C!Spec /\ L!Spec /\ A!Spec
              /\ T!Spec /\ P!Spec /\ S!Spec /\ D!Spec
<1> DEFINE allVars == <<part, vars, cVars, lVars, aVars, tVars, pVars, sVars, dVars>>
<1>1. MCInit => /\ Init /\ C!Init /\ L!Init /\ A!Init
                /\ T!Init /\ P!Init /\ S!Init /\ D!Init
  BY DEF MCInit, Still
<1> USE DEF MCNext, cVars, lVars, aVars, tVars, pVars, sVars, dVars
<1>2. [MCNext]_allVars => [Next]_vars
  OBVIOUS
<1>3. [MCNext]_allVars => [C!Next]_(C!vars)
  BY DEF C!vars, C!rows, C!locals
<1>4. [MCNext]_allVars => [L!Next]_(L!vars)
  BY DEF L!vars, L!rows, L!locals
<1>5. [MCNext]_allVars => [A!Next]_(A!vars)
  BY DEF A!vars
<1>6. [MCNext]_allVars => [T!Next]_(T!vars)
  BY DEF T!vars, T!rows, T!locals
<1>7. [MCNext]_allVars => [P!Next]_(P!vars)
  BY DEF P!vars
<1>8. [MCNext]_allVars => [S!Next]_(S!vars)
  BY DEF S!vars
<1>9. [MCNext]_allVars => [D!Next]_(D!vars)
  BY DEF D!vars, D!rows, D!cached
<1> QED
  BY <1>1, <1>2, <1>3, <1>4, <1>5, <1>6, <1>7, <1>8, <1>9, PTL
  DEF MCSpec, Spec, C!Spec, L!Spec, A!Spec, T!Spec, P!Spec, S!Spec, D!Spec

\* Type correctness of what belongs to tasks and of what reads it.
THEOREM PartsTypeCorrect == MCSpec => []PartsTypeOK
<1>1. TypeOK /\ C!TypeOK /\ L!TypeOK /\ A!TypeOK /\ T!TypeOK /\ P!TypeOK /\ S!TypeOK /\ D!TypeOK
      => PartsTypeOK
  BY DEF PartsTypeOK
<1> QED
  BY <1>1, PartsAreThemselves, FieldsTypeCorrect, CommentsTypeCorrect, LabelsTypeCorrect,
     AttachmentsTypeCorrect, TemplatesTypeCorrect, PagesTypeCorrect, SearchTypeCorrect,
     DashboardTypeCorrect, PTL

\* What a check let through, the database refuses only if it was overtaken: a
\* watcher (services/comment_service.py) and a label (services/label_service.py).
THEOREM RefusalsAreOvertakings == MCSpec => []RefusedOnlyIfOvertaken
<1>1. C!LostOnlyIfOvertaken /\ L!RefusedOnlyIfOvertaken => RefusedOnlyIfOvertaken
  BY DEF RefusedOnlyIfOvertaken
<1> QED
  BY <1>1, PartsAreThemselves, LossesAreOvertakings, LabelsRefusedIfOvertaken, PTL
=============================================================================
