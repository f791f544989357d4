---------------------------- MODULE TaskNumbering ---------------------------
(***************************************************************************)
(* How concurrent requests number the tasks of a project                   *)
(* (services/task_service.py: create_task and clone_task, called by        *)
(* api/tasks.py and mcp/tools/tasks.py).                                   *)
(*                                                                         *)
(* A request runs in a database transaction of its own, READ COMMITTED,    *)
(* and other requests run at every await.  A request locks the project row *)
(* (SELECT ... FOR UPDATE), computes task_counter + 1, writes the counter  *)
(* and the task and commits.  counter and tasks are the committed rows; an *)
(* uncommitted write is visible to its own transaction only and follows    *)
(* from seen[r].                                                           *)
(*                                                                         *)
(* The ORM session keeps one object per row.  create_task has no Project   *)
(* object when it issues the locking SELECT, so that SELECT fills one with *)
(* the locked row.  clone_task holds the original task, and with it the    *)
(* Project loaded by get_task's joinedload: the locking SELECT locks the   *)
(* row but leaves the attributes of the object already loaded as they      *)
(* were, so a clone computes with the counter it read BEFORE the lock.     *)
(***************************************************************************)
EXTENDS Naturals

CONSTANTS Project,      \* projects
          Request,      \* request slots of the server, each serving one request at a time
          NoRequest,    \* the project row is not locked
          MaxTasks      \* bound: no project gets more tasks than this

ASSUME NumberingAssumption ==
    /\ NoRequest \notin Request
    /\ MaxTasks \in Nat

VARIABLES counter,      \* projects.task_counter, committed
          tasks,        \* (project_id, number) of the committed rows of tasks
          lock,         \* the request whose transaction holds the row lock of a project
          pc,           \* where the handler of a request is
          op,           \* "create" or "clone"
          project,      \* the project the request is about
          seen,         \* task_counter of the Project object in the request's session
          outcome       \* what the last request of the slot answered

vars == <<counter, tasks, lock, pc, op, project, seen, outcome>>

Holding == {"validate", "flush", "commit"}      \* the phases under the row lock

TypeOK ==
    /\ counter \in [Project -> Nat]
    /\ tasks \subseteq Project \X Nat
    /\ lock \in [Project -> Request \cup {NoRequest}]
    /\ pc \in [Request -> {"idle", "lock"} \cup Holding]
    /\ op \in [Request -> {"create", "clone"}]
    /\ project \in [Request -> Project]
    /\ seen \in [Request -> Nat]
    /\ outcome \in [Request -> {"none", "created", "rejected", "conflict", "aborted"}]

Init ==
    /\ counter = [p \in Project |-> 0]
    /\ tasks = {}
    /\ lock = [p \in Project |-> NoRequest]
    /\ pc = [r \in Request |-> "idle"]
    /\ op = [r \in Request |-> "create"]
    /\ project \in [Request -> Project]
    /\ seen = [r \in Request |-> 0]
    /\ outcome = [r \in Request |-> "none"]

-----------------------------------------------------------------------------
Begin(r, kind, p) ==
    /\ pc[r] = "idle"
    /\ pc' = [pc EXCEPT ![r] = "lock"]
    /\ op' = [op EXCEPT ![r] = kind]
    /\ project' = [project EXCEPT ![r] = p]
    /\ outcome' = [outcome EXCEPT ![r] = "none"]
    /\ UNCHANGED <<counter, tasks, lock>>

\* Mutant: the rejected request forgets to end its transaction.
FinishLeaksLock(r, answer) ==
    /\ pc' = [pc EXCEPT ![r] = "idle"]
    /\ outcome' = [outcome EXCEPT ![r] = answer]
    /\ lock' = IF answer = "rejected" THEN lock
               ELSE [p \in Project |-> IF lock[p] = r THEN NoRequest ELSE lock[p]]
    /\ UNCHANGED <<op, project, seen>>

\* The end of a transaction: the row lock, if held, goes; so does the session.
Finish(r, answer) ==
    /\ pc' = [pc EXCEPT ![r] = "idle"]
    /\ outcome' = [outcome EXCEPT ![r] = answer]
    /\ lock' = [p \in Project |-> IF lock[p] = r THEN NoRequest ELSE lock[p]]
    /\ UNCHANGED <<op, project, seen>>

\* POST /projects/{id}/tasks, or the MCP tool: the access check loads the
\* project too, but its object is gone when create_task starts.
BeginCreate(r, p) ==
    /\ Begin(r, "create", p)
    /\ seen' = [seen EXCEPT ![r] = 0]

\* POST /tasks/{id}/clone of a task of p: get_task reads the task together
\* with its project, without a lock.
BeginClone(r, p) ==
    /\ tasks \cap ({p} \X Nat) # {}
    /\ counter[p] < MaxTasks
    /\ Begin(r, "clone", p)
    /\ seen' = [seen EXCEPT ![r] = counter[p]]

\* Mutant: the locking SELECT of a create leaves the counter it knew before.
LockProjectStale(r) ==
    /\ pc[r] = "lock"
    /\ lock[project[r]] = NoRequest
    /\ lock' = [lock EXCEPT ![project[r]] = r]
    /\ pc' = [pc EXCEPT ![r] = IF op[r] = "create" THEN "validate" ELSE "flush"]
    /\ UNCHANGED <<counter, tasks, op, project, seen, outcome>>

\* select(Project).with_for_update(): waits for the row lock.
LockProject(r) ==
    /\ pc[r] = "lock"
    /\ lock[project[r]] = NoRequest
    /\ lock' = [lock EXCEPT ![project[r]] = r]
    /\ IF op[r] = "create"
       THEN /\ seen' = [seen EXCEPT ![r] = counter[project[r]]]
            /\ pc' = [pc EXCEPT ![r] = "validate"]
       ELSE /\ seen' = seen
            /\ pc' = [pc EXCEPT ![r] = "flush"]
    /\ UNCHANGED <<counter, tasks, op, project, outcome>>

\* _validate_assignee found no assignee, or a member of the project.
AcceptAssignee(r) ==
    /\ pc[r] = "validate"
    /\ seen[r] < MaxTasks
    /\ pc' = [pc EXCEPT ![r] = "flush"]
    /\ UNCHANGED <<counter, tasks, lock, op, project, seen, outcome>>

\* _validate_assignee raised ValueError: the API answers 400.
RejectAssignee(r) ==
    /\ pc[r] = "validate"
    /\ Finish(r, "rejected")
    /\ UNCHANGED <<counter, tasks>>

\* Mutant: the schema has no UNIQUE (project_id, number).
FlushUnchecked(r) ==
    /\ pc[r] = "flush"
    /\ pc' = [pc EXCEPT ![r] = "commit"]
    /\ UNCHANGED <<counter, tasks, lock, op, project, seen, outcome>>

\* The flush writes task_counter = seen + 1 and inserts the task with that
\* number; UNIQUE (project_id, number) refuses a number already taken.
FlushTask(r) ==
    /\ pc[r] = "flush"
    /\ <<project[r], seen[r] + 1>> \notin tasks
    /\ pc' = [pc EXCEPT ![r] = "commit"]
    /\ UNCHANGED <<counter, tasks, lock, op, project, seen, outcome>>

FlushConflict(r) ==
    /\ pc[r] = "flush"
    /\ <<project[r], seen[r] + 1>> \in tasks
    /\ Finish(r, "conflict")
    /\ UNCHANGED <<counter, tasks>>

\* Tags or labels are written and the handler commits.
Commit(r) ==
    /\ pc[r] = "commit"
    /\ counter' = [counter EXCEPT ![project[r]] = seen[r] + 1]
    /\ tasks' = tasks \cup {<<project[r], seen[r] + 1>>}
    /\ Finish(r, "created")

\* Mutant: the counter is a database sequence, which a rollback does not reset.
AbortKeepsNumber(r) ==
    /\ pc[r] # "idle"
    /\ Finish(r, "aborted")
    /\ counter' = IF pc[r] = "commit" THEN [counter EXCEPT ![project[r]] = seen[r] + 1]
                  ELSE counter
    /\ tasks' = tasks

\* A statement fails, the client goes away or the server stops before the
\* commit: the session is closed and PostgreSQL rolls the transaction back.
Abort(r) ==
    /\ pc[r] # "idle"
    /\ Finish(r, "aborted")
    /\ UNCHANGED <<counter, tasks>>

-----------------------------------------------------------------------------
Handle(r) ==
    \/ AcceptAssignee(r)
    \/ RejectAssignee(r)
    \/ FlushTask(r)
    \/ FlushConflict(r)
    \/ Commit(r)

Next ==
    \E r \in Request :
        \/ \E p \in Project : BeginCreate(r, p) \/ BeginClone(r, p)
        \/ LockProject(r)
        \/ Handle(r)
        \/ Abort(r)

Spec == Init /\ [][Next]_vars

\* A handler that can go on goes on; PostgreSQL queues the waiters of a row
\* lock, so one that waits is served when the lock comes free again and again.
Fairness == \A r \in Request : WF_vars(Handle(r)) /\ SF_vars(LockProject(r))

FairSpec == Spec /\ Fairness

-----------------------------------------------------------------------------
Numbers(p) == {t[2] : t \in {x \in tasks : x[1] = p}}

\* The tasks of a project are numbered 1..task_counter without gaps: no
\* interleaving of creates, clones and rollbacks loses or repeats a number, or
\* lets the counter and the tasks drift apart.
NumbersDense ==
    \A p \in Project : Numbers(p) = 1 .. counter[p]

\* A create never runs into UNIQUE (project_id, number): the counter it adds to
\* is the committed one, whatever happened while it waited for the row lock.
CreateNeverConflicts ==
    \A r \in Request : outcome[r] = "conflict" => op[r] = "clone"

\* Every request is answered, whoever else competes for the row lock.
RequestsFinish ==
    \A r \in Request : pc[r] # "idle" ~> pc[r] = "idle"

\* The abstract promise: what is committed is a TaskSequence.
Sequence == INSTANCE TaskSequence WITH issued <- [p \in Project |-> Numbers(p)]

SequenceSpec == Sequence!Spec
=============================================================================
