------------------------------ MODULE TaskFields ------------------------------
(***************************************************************************)
(* The fields of one task, its tags and its history                        *)
(* (api/tasks.py: update_task, services/task_service.py: update_task,      *)
(* services/tag_service.py: sync_tags).                                    *)
(*                                                                         *)
(* A request loads the task after its access is checked (what that check   *)
(* had loaded is dropped with it); every later check, comparison and       *)
(* history record is made from this copy. The flush writes the columns     *)
(* that differ from the copy and holds the row until the commit; an update *)
(* that changes no column holds nothing. The tags are then deleted and     *)
(* inserted anew from the copy.                                            *)
(*                                                                         *)
(* A text is the set of the tags in it.  overtaken and patched are history *)
(* variables: the task was committed by another request after this one     *)
(* loaded it; the last tags written are those of such a request.           *)
(***************************************************************************)
EXTENDS Naturals, FiniteSets

CONSTANTS User,        \* users of the server
          Creator,     \* tasks.creator_id
          Leader,      \* leaders of the project or its team
          Member,      \* members of the project
          Tag,         \* tags
          Request,     \* request slots
          MAX_FIELDS,  \* bound: so many fields does a body set
          NoUser       \* no assignee, and the caller of an idle request

ASSUME TaskFieldsAssumption ==
    /\ Creator \in User /\ NoUser \notin User
    /\ Leader \subseteq User /\ Member \subseteq User

VARIABLES row,         \* the committed task
          tags,        \* its rows in task_tags, unique by (task, tag)
          log,         \* what the last commit added to task_history, field by field
          pc,          \* where the handler of a request is
          caller,      \* the user who sent it
          data,        \* the fields it sets
          copy,        \* the task as the session loaded it
          fresh,       \* the tags others have committed since it deleted the tags
          overtaken,   \* history: see above
          patched      \* history: see above

rows == <<row, tags, log, patched>>
locals == <<pc, caller, data, copy, fresh, overtaken>>
vars == <<rows, locals>>

Text == SUBSET Tag
Field == {"title", "description", "assignee"}
Value(f) == IF f = "assignee" THEN User \cup {NoUser} ELSE Text
Task == [title : Text, description : Text, assignee : User \cup {NoUser}]

\* Bodies of PUT: some of the fields of a task.
Body == {[f \in S |-> t[f]] : S \in {S \in SUBSET Field : Cardinality(S) <= MAX_FIELDS}, t \in Task}

NoTask == [title |-> {}, description |-> {}, assignee |-> NoUser]

\* Steps of a request that has loaded the task.
Loaded == {"permission", "assignee", "flush", "tags", "commit"}

TypeOK ==
    /\ row \in Task
    /\ tags \subseteq Tag
    /\ DOMAIN log \subseteq Field /\ \A f \in DOMAIN log : log[f] \in Value(f) \X Value(f)
    /\ pc \in [Request -> Loaded \cup {"idle"}]
    /\ caller \in [Request -> User \cup {NoUser}]
    /\ data \in [Request -> Body]
    /\ copy \in [Request -> Task]
    /\ fresh \in [Request -> SUBSET Tag]
    /\ overtaken \in [Request -> BOOLEAN] /\ patched \in BOOLEAN
    /\ \A r \in Request : pc[r] = "idle" => caller[r] = NoUser /\ ~overtaken[r]

\* create_task: what the texts name is in the tags, and there is no history.
Init ==
    /\ row \in {[title |-> t, description |-> {}, assignee |-> NoUser] : t \in Text}
    /\ tags = row.title
    /\ log = <<>>
    /\ patched = FALSE
    /\ pc = [r \in Request |-> "idle"]
    /\ caller = [r \in Request |-> NoUser]
    /\ data = [r \in Request |-> <<>>]
    /\ copy = [r \in Request |-> NoTask]
    /\ fresh = [r \in Request |-> {}]
    /\ overtaken = [r \in Request |-> FALSE]

-----------------------------------------------------------------------------
GoTo(r, step) ==
    /\ pc' = [pc EXCEPT ![r] = step]
    /\ UNCHANGED <<rows, caller, data, copy, fresh, overtaken>>

Reset(r) ==
    /\ pc' = [pc EXCEPT ![r] = "idle"]
    /\ caller' = [caller EXCEPT ![r] = NoUser]
    /\ data' = [data EXCEPT ![r] = <<>>]
    /\ copy' = [copy EXCEPT ![r] = NoTask]

\* The request is answered and nothing of it is left.
Refuse(r) ==
    /\ Reset(r)
    /\ fresh' = [fresh EXCEPT ![r] = {}]
    /\ overtaken' = [overtaken EXCEPT ![r] = FALSE]
    /\ UNCHANGED rows

\* Mutant: an empty value is taken for none.
WrittenTruthy(r) ==
    {f \in DOMAIN data[r] : data[r][f] # copy[r][f] /\ data[r][f] # (IF f = "assignee" THEN NoUser ELSE {})}

\* What the flush writes: the fields whose new value is not that of the copy.
Written(r) == {f \in DOMAIN data[r] : data[r][f] # copy[r][f]}

\* The session's copy after the flush.
Flushed(r) == [f \in Field |-> IF f \in DOMAIN data[r] THEN data[r][f] ELSE copy[r][f]]

Syncs(r) == DOMAIN data[r] \cap {"title", "description"} # {}

HoldsRow(r) == pc[r] \in {"tags", "commit"} /\ Written(r) # {}

-----------------------------------------------------------------------------
\* get_task
Begin(r, u, d) ==
    /\ pc[r] = "idle"
    /\ pc' = [pc EXCEPT ![r] = "permission"]
    /\ caller' = [caller EXCEPT ![r] = u]
    /\ data' = [data EXCEPT ![r] = d]
    /\ copy' = [copy EXCEPT ![r] = row]
    /\ UNCHANGED <<rows, fresh, overtaken>>

\* check_update_permission
CheckPermission(r) ==
    /\ pc[r] = "permission"
    /\ IF caller[r] \in Leader \cup {Creator, copy[r].assignee}
       THEN GoTo(r, "assignee") ELSE Refuse(r)

\* _validate_assignee (400)
ValidateAssignee(r) ==
    /\ pc[r] = "assignee"
    /\ IF "assignee" \in DOMAIN data[r] /\ data[r].assignee \notin Member \cup {NoUser}
       THEN Refuse(r) ELSE GoTo(r, "flush")

\* The flush waits for the row unless it has no column to write.
Flush(r) ==
    /\ pc[r] = "flush"
    /\ Written(r) # {} => \A q \in Request : ~HoldsRow(q)
    /\ GoTo(r, IF Syncs(r) THEN "tags" ELSE "commit")

\* sync_tags deletes the tags it sees; rows another request is deleting, too,
\* are waited for, which only orders the two commits.
DeleteTags(r) ==
    /\ pc[r] = "tags"
    /\ pc' = [pc EXCEPT ![r] = "commit"]
    /\ fresh' = [fresh EXCEPT ![r] = {}]
    /\ UNCHANGED <<rows, caller, data, copy, overtaken>>

\* Mutant: the tags of the changed texts alone.
NewTagsChanged(r) == UNION {Flushed(r)[f] : f \in Written(r) \ {"assignee"}}

\* extract_tags of the copy's texts.
NewTags(r) == Flushed(r).title \cup Flushed(r).description

\* UNIQUE(task_id, tag) refuses a tag that another has inserted meanwhile.
Conflicts(r) == Syncs(r) /\ NewTags(r) \cap fresh[r] # {}

\* _record_field_changes
Record(r, f) == <<copy[r][f], data[r][f]>>

\* UPDATE tasks SET the written columns.
Merge(r) == [f \in Field |-> IF f \in Written(r) THEN data[r][f] ELSE row[f]]

\* The commit, or the rollback of it all (500).
Commit(r) ==
    /\ pc[r] = "commit"
    /\ IF Conflicts(r)
       THEN Refuse(r)
       ELSE /\ row' = Merge(r)
            /\ log' = [f \in Written(r) |-> Record(r, f)]
            /\ IF Syncs(r)
               THEN /\ tags' = fresh[r] \cup NewTags(r)
                    /\ patched' = overtaken[r]
                    /\ fresh' = [q \in Request |-> IF q = r THEN {}
                                                   ELSE (fresh[q] \cap fresh[r]) \cup NewTags(r)]
               ELSE /\ fresh' = [fresh EXCEPT ![r] = {}]
                    /\ UNCHANGED <<tags, patched>>
            /\ Reset(r)
            /\ overtaken' = [q \in Request |-> q # r /\ (overtaken[q] \/ pc[q] \in Loaded)]

-----------------------------------------------------------------------------
Next ==
    \E r \in Request :
       \/ \E u \in User, d \in Body : Begin(r, u, d)
       \/ CheckPermission(r) \/ ValidateAssignee(r) \/ Flush(r) \/ DeleteTags(r) \/ Commit(r)

Spec == Init /\ [][Next]_vars

-----------------------------------------------------------------------------
\* "작업의 task_tags를 제목/설명에서 추출한 태그로 동기화합니다."
\* (services/tag_service.py:43): the tags are those of the title and of the
\* description, unless they were last written by a request that another commit
\* overtook, from texts the task may no longer have.
TagsMatchUnlessPatched == tags = row.title \cup row.description \/ patched

\* "변경 이력을 task_history에 기록합니다." (services/task_service.py:336): a field
\* changes together with a record of its old and its new value; only an
\* overtaken request records an old value the field did not have.
HistoryTells ==
    \A f \in Field : row'[f] # row[f] =>
       /\ f \in DOMAIN log' /\ log'[f][2] = row'[f]
       /\ log'[f][1] = row[f] \/ \E r \in Request : pc[r] = "commit" /\ overtaken[r]

\* "권한 보유자: creator, assignee, project leader, team leader, admin."
\* (services/task_service.py:281): who gets past the check is one of them.
Editor(r) == caller[r] \in Leader \cup {Creator, row.assignee}

\* An update that is answered with success was asked for by an editor and is in
\* the task as it is committed, field by field, with its history, unless the
\* request was overtaken: then a value it believed to be there already is not
\* written, and its caller may be the assignee no longer.
UpdateToldUnlessOvertaken ==
    [][/\ HistoryTells
       /\ \A r \in Request : pc[r] = "commit" /\ pc'[r] = "idle" /\ ~Conflicts(r) =>
             \/ overtaken[r]
             \/ /\ Editor(r)
                /\ row' = [f \in Field |-> IF f \in DOMAIN data[r] THEN data[r][f] ELSE row[f]]]_vars
=============================================================================
