-------------------------------- MODULE Labels --------------------------------
(***************************************************************************)
(* The labels of a project and of one of its tasks (api/labels.py,         *)
(* services/label_service.py, add_label and remove_label of                *)
(* mcp/tools/tasks.py), and the labels a clone of the task gets            *)
(* (clone_task of services/task_service.py).                               *)
(*                                                                         *)
(* Every handler reads first and writes at its commit.  What a request     *)
(* reads is never locked; the database refuses a second label of the same  *)
(* name, a second copy of a label on the task, a label of a task that is   *)
(* not there, and the deletion of one that a task has, each with an error  *)
(* 500 that takes the whole request back.                                  *)
(*                                                                         *)
(* overtaken is a history variable: another request has committed since    *)
(* this one last read.                                                     *)
(***************************************************************************)
CONSTANTS Label,       \* labels
          Name,        \* their names
          Request,     \* request slots
          NoName       \* the name of a label that is not there

VARIABLES name,        \* labels.name, unique in the project
          on,          \* the labels of the task
          cloned,      \* the labels of its clone
          wasCloned,   \* whether there is a clone
          pc,          \* where the handler of a request is
          label,       \* the label it is about
          newName,     \* the name it gives the label
          carried,     \* the labels a clone is to get
          overtaken    \* history: see above

rows == <<name, on, cloned, wasCloned>>
locals == <<pc, label, newName, carried, overtaken>>
vars == <<rows, locals>>

There == {l \in Label : name[l] # NoName}

Taken(n) == \E l \in Label : name[l] = n

TypeOK ==
    /\ name \in [Label -> Name \cup {NoName}]
    /\ \A l, k \in There : name[l] = name[k] => l = k
    /\ on \subseteq Label /\ cloned \subseteq Label /\ wasCloned \in BOOLEAN
    /\ pc \in [Request -> {"idle", "insert", "rename", "delete", "add", "remove", "clone"}]
    /\ label \in [Request -> Label]
    /\ newName \in [Request -> Name \cup {NoName}]
    /\ carried \in [Request -> SUBSET Label]
    /\ overtaken \in [Request -> BOOLEAN]
    /\ \A r \in Request : pc[r] = "idle" => ~overtaken[r]

Init ==
    /\ name = [l \in Label |-> NoName]
    /\ on = {} /\ cloned = {} /\ wasCloned = FALSE
    /\ pc = [r \in Request |-> "idle"]
    /\ label = [r \in Request |-> CHOOSE l \in Label : TRUE]
    /\ newName = [r \in Request |-> NoName]
    /\ carried = [r \in Request |-> {}]
    /\ overtaken = [r \in Request |-> FALSE]

-----------------------------------------------------------------------------
Start(r, step, l, n, ls) ==
    /\ pc[r] = "idle"
    /\ pc' = [pc EXCEPT ![r] = step]
    /\ label' = [label EXCEPT ![r] = l]
    /\ newName' = [newName EXCEPT ![r] = n]
    /\ carried' = [carried EXCEPT ![r] = ls]
    /\ UNCHANGED <<rows, overtaken>>

Idle(r) ==
    /\ pc' = [pc EXCEPT ![r] = "idle"]
    /\ newName' = [newName EXCEPT ![r] = NoName]
    /\ carried' = [carried EXCEPT ![r] = {}]
    /\ UNCHANGED label

\* The database refuses the request, or it finds nothing to write.
Fail(r) ==
    /\ Idle(r)
    /\ overtaken' = [overtaken EXCEPT ![r] = FALSE]
    /\ UNCHANGED rows

\* The request is committed.
Succeed(r) ==
    /\ Idle(r)
    /\ overtaken' = [q \in Request |-> q # r /\ pc[q] # "idle"]

-----------------------------------------------------------------------------
\* create_label: a free name (else 409) and a new label.
BeginCreate(r, l, n) ==
    /\ l \notin There /\ ~Taken(n)
    /\ \A q \in Request : pc[q] # "idle" => label[q] # l /\ l \notin carried[q]
    /\ Start(r, "insert", l, n, {})

Insert(r) ==
    /\ pc[r] = "insert"
    /\ IF Taken(newName[r])
       THEN Fail(r)
       ELSE /\ name' = [name EXCEPT ![label[r]] = newName[r]]
            /\ Succeed(r)
            /\ UNCHANGED <<on, cloned, wasCloned>>

\* require_label_access reads the label; its own name is not written.  Whether
\* the name is free is not asked.
BeginRename(r, l, n) == l \in There /\ n # name[l] /\ Start(r, "rename", l, n, {})

\* update_label: of a label that is gone (404 or StaleDataError), or to a name
\* that another label has (500).
Rename(r) ==
    /\ pc[r] = "rename"
    /\ IF label[r] \notin There \/ (Taken(newName[r]) /\ name[label[r]] # newName[r])
       THEN Fail(r)
       ELSE /\ name' = [name EXCEPT ![label[r]] = newName[r]]
            /\ Succeed(r)
            /\ UNCHANGED <<on, cloned, wasCloned>>

BeginDelete(r, l) == l \in There /\ Start(r, "delete", l, NoName, {})

\* Mutant: no foreign key.
DeleteUsed(r) ==
    /\ pc[r] = "delete"
    /\ name' = [name EXCEPT ![label[r]] = NoName]
    /\ Succeed(r)
    /\ UNCHANGED <<on, cloned, wasCloned>>

\* delete_label; the foreign keys of task_labels refuse it.
Delete(r) ==
    /\ pc[r] = "delete"
    /\ IF label[r] \in on \cup cloned
       THEN Fail(r)
       ELSE /\ name' = [name EXCEPT ![label[r]] = NoName]
            /\ Succeed(r)
            /\ UNCHANGED <<on, cloned, wasCloned>>

-----------------------------------------------------------------------------
\* The MCP tools: add_label of a label the task does not have,
BeginAdd(r, l) == l \in There \ on /\ Start(r, "add", l, NoName, {})

Add(r) ==
    /\ pc[r] = "add"
    /\ IF label[r] \in on \/ label[r] \notin There
       THEN Fail(r)
       ELSE /\ on' = on \cup {label[r]}
            /\ Succeed(r)
            /\ UNCHANGED <<name, cloned, wasCloned>>

\* ... and remove_label of one it has.
BeginRemove(r, l) == l \in on /\ Start(r, "remove", l, NoName, {})

Remove(r) ==
    /\ pc[r] = "remove"
    /\ on' = on \ {label[r]}
    /\ Succeed(r)
    /\ UNCHANGED <<name, cloned, wasCloned>>

\* clone_task reads the task with its labels.
BeginClone(r) == ~wasCloned /\ Start(r, "clone", label[r], NoName, on)

\* The clone with the labels read, all there still, or no clone; one clone is
\* followed.
Clone(r) ==
    /\ pc[r] = "clone"
    /\ IF wasCloned \/ ~(carried[r] \subseteq There)
       THEN Fail(r)
       ELSE /\ cloned' = carried[r]
            /\ wasCloned' = TRUE
            /\ Succeed(r)
            /\ UNCHANGED <<name, on>>

-----------------------------------------------------------------------------
Next ==
    \E r \in Request :
       \/ \E l \in Label, n \in Name : BeginCreate(r, l, n) \/ BeginRename(r, l, n)
       \/ \E l \in Label : BeginDelete(r, l) \/ BeginAdd(r, l) \/ BeginRemove(r, l)
       \/ BeginClone(r)
       \/ Insert(r) \/ Rename(r) \/ Delete(r) \/ Add(r) \/ Remove(r) \/ Clone(r)

Spec == Init /\ [][Next]_vars

-----------------------------------------------------------------------------
\* The database refuses the request, were it committed now.
Refused(r) ==
    CASE pc[r] = "insert" -> Taken(newName[r])
      [] pc[r] = "add" -> label[r] \notin There \ on
      [] pc[r] = "clone" -> wasCloned \/ ~(carried[r] \subseteq There)
      [] OTHER -> FALSE

\* "라벨 이름 ...은 이 프로젝트에서 이미 사용 중입니다." (services/label_service.py:47): a
\* label that create_label found to be new, add_label to be missing or clone_task
\* to be on the task is not refused by the database, unless another request was
\* committed in between.  A label is renamed without such a check.
RefusedOnlyIfOvertaken == \A r \in Request : Refused(r) => overtaken[r]
=============================================================================
