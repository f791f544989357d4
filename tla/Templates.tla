------------------------------ MODULE Templates ------------------------------
(***************************************************************************)
(* One task template, and the tasks made from it (api/templates.py,        *)
(* services/template_service.py, utils/safe_update.py).                    *)
(*                                                                         *)
(* A handler checks the access, then loads the template; what the check    *)
(* had loaded is dropped before (the session refers to it weakly).  An     *)
(* update writes the fields that differ from this copy; the flush holds    *)
(* the row until the commit.  safe_update changes projects, teams and      *)
(* labels in the same way.                                                 *)
(*                                                                         *)
(* overtaken is a history variable: another request has changed or deleted *)
(* the template since this one loaded it.                                  *)
(***************************************************************************)
CONSTANTS Content,     \* values of a field
          Request,     \* request slots
          NoTemplate   \* no row, and the copy of a request that has loaded none

VARIABLES template,    \* the committed row
          made,        \* the fields of the task that was made last
          pc,          \* where the handler of a request is
          copy,        \* the template as the session loaded it
          data,        \* the fields a PUT sets
          overtaken    \* history: see above

rows == <<template, made>>
locals == <<pc, copy, data, overtaken>>
vars == <<rows, locals>>

Field == {"title_template", "description"}
Template == [Field -> Content]
Body == UNION {[S -> Content] : S \in SUBSET Field}

\* Steps of a request that has loaded the template.
Loaded == {"flush", "commit", "insert"}

TypeOK ==
    /\ template \in Template \cup {NoTemplate}
    /\ made \in Template \cup {NoTemplate}
    /\ pc \in [Request -> Loaded \cup {"idle", "update", "delete", "task"}]
    /\ copy \in [Request -> Template \cup {NoTemplate}]
    /\ data \in [Request -> Body]
    /\ overtaken \in [Request -> BOOLEAN]
    /\ \A r \in Request : copy[r] # NoTemplate <=> pc[r] \in Loaded

Init ==
    /\ template = NoTemplate
    /\ made = NoTemplate
    /\ pc = [r \in Request |-> "idle"]
    /\ copy = [r \in Request |-> NoTemplate]
    /\ data = [r \in Request |-> <<>>]
    /\ overtaken = [r \in Request |-> FALSE]

-----------------------------------------------------------------------------
\* The template was there when the access was checked.
Begin(r, step, d) ==
    /\ pc[r] = "idle" /\ template # NoTemplate
    /\ pc' = [pc EXCEPT ![r] = step]
    /\ data' = [data EXCEPT ![r] = d]
    /\ UNCHANGED <<rows, copy, overtaken>>

\* The request is answered; others under way are overtaken if it changed the row.
End(r, changed) ==
    /\ pc' = [pc EXCEPT ![r] = "idle"]
    /\ copy' = [copy EXCEPT ![r] = NoTemplate]
    /\ data' = [data EXCEPT ![r] = <<>>]
    /\ overtaken' = [q \in Request |-> q # r /\ (overtaken[q] \/ (changed /\ pc[q] \in Loaded))]

\* The handler's SELECT: 404, or the copy.
Load(r, step) ==
    /\ IF template = NoTemplate
       THEN End(r, FALSE)
       ELSE /\ pc' = [pc EXCEPT ![r] = step]
            /\ copy' = [copy EXCEPT ![r] = template]
            /\ UNCHANGED <<data, overtaken>>
    /\ UNCHANGED rows

\* What safe_update changes.
Changed(r) == {f \in DOMAIN data[r] : data[r][f] # copy[r][f]}

Held == \E q \in Request : pc[q] = "commit" /\ Changed(q) # {}

-----------------------------------------------------------------------------
\* create_template; a template that was deleted is followed by another when no
\* request is left that knew it.
Create(t) ==
    /\ template = NoTemplate /\ \A r \in Request : pc[r] = "idle"
    /\ template' = t
    /\ UNCHANGED <<made, locals>>

BeginUpdate(r, d) == d # <<>> /\ Begin(r, "update", d)
BeginDelete(r) == Begin(r, "delete", <<>>)
BeginTask(r) == Begin(r, "task", <<>>)

\* update_template
Update(r) == pc[r] = "update" /\ Load(r, "flush")

\* Its flush and refresh: a row that is gone by now is not there to be written, or
\* read again (500).
Flush(r) ==
    /\ pc[r] = "flush" /\ (Changed(r) # {} => ~Held)
    /\ IF template = NoTemplate
       THEN End(r, FALSE)
       ELSE pc' = [pc EXCEPT ![r] = "commit"] /\ UNCHANGED <<copy, data, overtaken>>
    /\ UNCHANGED rows

\* Mutant: the copy is written back with the new fields.
WrittenAll(r) == [f \in Field |-> IF f \in DOMAIN data[r] THEN data[r][f] ELSE copy[r][f]]

\* UPDATE task_templates SET the changed fields.
Written(r) == [f \in Field |-> IF f \in Changed(r) THEN data[r][f] ELSE template[f]]

\* A request that changes nothing holds no row: it commits even if the template was
\* deleted after the refresh.
Commit(r) ==
    /\ pc[r] = "commit"
    /\ template' = IF template = NoTemplate THEN NoTemplate ELSE Written(r)
    /\ End(r, Changed(r) # {})
    /\ UNCHANGED made

\* delete_template; also once more.
Delete(r) ==
    /\ pc[r] = "delete" /\ ~Held
    /\ template' = NoTemplate
    /\ End(r, template # NoTemplate)
    /\ UNCHANGED made

\* create_task_from_template
FindTemplate(r) == pc[r] = "task" /\ Load(r, "insert")

\* TaskCreate
TaskFields(r) == copy[r]

\* create_task and the commit.
InsertTask(r) ==
    /\ pc[r] = "insert"
    /\ made' = TaskFields(r)
    /\ End(r, FALSE)
    /\ UNCHANGED template

Next ==
    \/ \E t \in Template : Create(t)
    \/ \E r \in Request :
          \/ \E d \in Body : BeginUpdate(r, d)
          \/ BeginDelete(r) \/ BeginTask(r)
          \/ Update(r) \/ Flush(r) \/ Commit(r) \/ Delete(r) \/ FindTemplate(r) \/ InsertTask(r)

Spec == Init /\ [][Next]_vars

-----------------------------------------------------------------------------
\* "허용된 필드만 모델 인스턴스에 적용합니다." (utils/safe_update.py:14): an update leaves the
\* fields it does not set as they are, even those another request has changed in
\* between; those it sets have the new value afterwards, unless it was overtaken;
\* and what it flushed is not deleted before it commits.
Kept(r) ==
    IF template = NoTemplate THEN Changed(r) = {} /\ template' = NoTemplate
    ELSE \A f \in Field :
            IF f \in DOMAIN data[r] THEN template'[f] = data[r][f] \/ overtaken[r]
            ELSE template'[f] = template[f]

\* "템플릿의 title_template, description, priority, tags를 복사하여 ... 작업을 생성합니다."
\* (services/template_service.py:144): the texts of the task are those of the
\* template when it is committed, unless the request was overtaken.
Copied(r) == made' = template \/ overtaken[r]

\* An update is kept, and a task is made of what is there.
UpdateIsKept ==
    [][\A r \in Request : pc'[r] = "idle" =>
          (pc[r] = "commit" => Kept(r)) /\ (pc[r] = "insert" => Copied(r))]_vars
=============================================================================
