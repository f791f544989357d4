---------------------------- MODULE TaskRelations ---------------------------
(***************************************************************************)
(* The blocked_by relations between tasks (api/tasks.py:                   *)
(* add_task_relation, remove_task_relation, delete_task;                   *)
(* services/transition_service.py: count_blocked_by, detect_cycle;         *)
(* services/task_service.py: archive_task).                                *)
(*                                                                         *)
(* A request that adds a relation checks first and inserts afterwards:     *)
(* it counts the blockers, walks the relations from the new blocker with   *)
(* one query per task, and inserts if it did not meet the task itself.     *)
(* Nothing locks what it read, so the relations change under the walk.     *)
(*                                                                         *)
(* relations holds the committed rows.  A DELETE locks the rows it found   *)
(* (doomed) until its transaction commits; until then everybody still      *)
(* reads them, and a statement that needs one of them waits.               *)
(* The flag tasks.is_archived is left out: nothing here reads it.          *)
(*                                                                         *)
(* missed and raced are history variables, which no action reads in a      *)
(* guard: missed[r] says that another insertion was committed after the    *)
(* first check of r, and raced holds the rows whose insertion missed one.  *)
(***************************************************************************)
EXTENDS Naturals, Sequences, FiniteSets

CONSTANTS Task,             \* tasks, none of which is ever removed
          Request,          \* request slots of the server
          MAX_BLOCKED_BY,   \* 10 in the code
          MAX_CHAIN_DEPTH   \* 20 in the code

ASSUME RelationsAssumption ==
    /\ IsFiniteSet(Task)
    /\ MAX_BLOCKED_BY \in Nat
    /\ MAX_CHAIN_DEPTH \in Nat \ {0}

VARIABLES relations,    \* <<task, blocker>> of the committed rows of task_relations
          pc,           \* where the handler of a request is
          edge,         \* the row a request wants to add or remove
          visited,      \* local of detect_cycle
          stack,        \* local of detect_cycle; its last element is the top
          doomed,       \* rows deleted by a transaction that has not committed
          answer,       \* status code of the last answer of the slot, or 0
          missed,       \* history: see above
          raced         \* history: see above

vars == <<relations, pc, edge, visited, stack, doomed, answer, missed, raced>>

Edge == {e \in Task \X Task : e[1] # e[2]}
NoEdge == <<>>

Adding == {"search", "insert"}      \* between the first check and the insertion

TypeOK ==
    /\ relations \subseteq Edge
    /\ pc \in [Request -> {"idle", "refresh", "delete", "commit"} \cup Adding]
    /\ edge \in [Request -> Edge \cup {NoEdge}]
    /\ \A r \in Request : pc[r] \in {"refresh", "delete"} \cup Adding => edge[r] \in Edge
    /\ visited \in [Request -> SUBSET Task]
    /\ stack \in [Request -> Seq(Task)]
    /\ doomed \in [Request -> SUBSET Edge]
    /\ answer \in [Request -> {0, 201, 204, 404, 422, 500}]
    /\ missed \in [Request -> BOOLEAN]
    /\ raced \subseteq relations

Init ==
    /\ relations = {}
    /\ pc = [r \in Request |-> "idle"]
    /\ edge = [r \in Request |-> NoEdge]
    /\ visited = [r \in Request |-> {}]
    /\ stack = [r \in Request |-> <<>>]
    /\ doomed = [r \in Request |-> {}]
    /\ answer = [r \in Request |-> 0]
    /\ missed = [r \in Request |-> FALSE]
    /\ raced = {}

-----------------------------------------------------------------------------
Blockers(E, t) == {b \in Task : <<t, b>> \in E}

\* The answers of a query for the blockers of t, in whatever order it has them.
Rows(t) ==
    LET S == Blockers(relations, t)
    IN  {s \in [1 .. Cardinality(S) -> S] : \A b \in S : \E i \in DOMAIN s : s[i] = b}

\* Another transaction is about to delete one of these rows.
Locked(r, rows) == \E q \in Request \ {r} : doomed[q] \cap rows # {}

Answer(r, code) ==
    /\ pc' = [pc EXCEPT ![r] = "idle"]
    /\ answer' = [answer EXCEPT ![r] = code]
    /\ edge' = [edge EXCEPT ![r] = NoEdge]
    /\ visited' = [visited EXCEPT ![r] = {}]
    /\ stack' = [stack EXCEPT ![r] = <<>>]
    /\ doomed' = [doomed EXCEPT ![r] = {}]
    /\ missed' = [missed EXCEPT ![r] = FALSE]

\* A relation that its task cannot have: to itself, or beyond the limit.
RefuseAdd(r, t, b) ==
    /\ pc[r] = "idle"
    /\ t = b \/ Cardinality(Blockers(relations, t)) >= MAX_BLOCKED_BY
    /\ Answer(r, 422)
    /\ UNCHANGED <<relations, raced>>

\* Mutant: > where count_blocked_by is compared with the limit by >=.
BeginAddOneMore(r, t, b) ==
    /\ pc[r] = "idle"
    /\ t # b
    /\ Cardinality(Blockers(relations, t)) <= MAX_BLOCKED_BY
    /\ pc' = [pc EXCEPT ![r] = "search"]
    /\ edge' = [edge EXCEPT ![r] = <<t, b>>]
    /\ stack' = [stack EXCEPT ![r] = <<b>>]
    /\ answer' = [answer EXCEPT ![r] = 0]
    /\ UNCHANGED <<relations, visited, doomed, missed, raced>>

\* POST /tasks/{t}/relations for blocker b, up to count_blocked_by.
BeginAdd(r, t, b) ==
    /\ pc[r] = "idle"
    /\ t # b
    /\ Cardinality(Blockers(relations, t)) < MAX_BLOCKED_BY
    /\ pc' = [pc EXCEPT ![r] = "search"]
    /\ edge' = [edge EXCEPT ![r] = <<t, b>>]
    /\ stack' = [stack EXCEPT ![r] = <<b>>]
    /\ answer' = [answer EXCEPT ![r] = 0]
    /\ UNCHANGED <<relations, visited, doomed, missed, raced>>

\* Mutant: the depth limit is one task too low.
FoundCycleEarly(r) ==
    /\ pc[r] = "search"
    /\ stack[r] # <<>>
    /\ \/ Cardinality(visited[r]) >= MAX_CHAIN_DEPTH - 1
       \/ stack[r][Len(stack[r])] = edge[r][1]
    /\ Answer(r, 422)
    /\ UNCHANGED <<relations, raced>>

\* detect_cycle returns True: too many tasks visited with some still on the
\* stack, or the task itself is on top of it.
FoundCycle(r) ==
    /\ pc[r] = "search"
    /\ stack[r] # <<>>
    /\ \/ Cardinality(visited[r]) >= MAX_CHAIN_DEPTH
       \/ stack[r][Len(stack[r])] = edge[r][1]
    /\ Answer(r, 422)
    /\ UNCHANGED <<relations, raced>>

\* Mutant: the walk follows the last query only, stack = parents.
VisitForgets(r) ==
    LET top == stack[r][Len(stack[r])]
    IN  /\ pc[r] = "search"
        /\ stack[r] # <<>>
        /\ Cardinality(visited[r]) < MAX_CHAIN_DEPTH
        /\ top # edge[r][1]
        /\ visited' = [visited EXCEPT ![r] = @ \cup {top}]
        /\ \E parents \in Rows(top) : stack' = [stack EXCEPT ![r] = parents]
        /\ UNCHANGED <<relations, pc, edge, doomed, answer, missed, raced>>

\* Mutant: visited.add(current) is missing.
VisitUnmarked(r) ==
    LET top == stack[r][Len(stack[r])]
        rest == SubSeq(stack[r], 1, Len(stack[r]) - 1)
    IN  /\ pc[r] = "search"
        /\ stack[r] # <<>>
        /\ top # edge[r][1]
        /\ \E parents \in Rows(top) : stack' = [stack EXCEPT ![r] = rest \o parents]
        /\ UNCHANGED <<relations, pc, edge, visited, doomed, answer, missed, raced>>

\* One iteration of the loop of detect_cycle that goes on: the top is popped
\* and, the first time, visited and its blockers are queried and pushed.
Visit(r) ==
    LET top == stack[r][Len(stack[r])]
        rest == SubSeq(stack[r], 1, Len(stack[r]) - 1)
    IN  /\ pc[r] = "search"
        /\ stack[r] # <<>>
        /\ Cardinality(visited[r]) < MAX_CHAIN_DEPTH
        /\ top # edge[r][1]
        /\ visited' = [visited EXCEPT ![r] = @ \cup {top}]
        /\ IF top \in visited[r]
           THEN stack' = [stack EXCEPT ![r] = rest]
           ELSE \E parents \in Rows(top) : stack' = [stack EXCEPT ![r] = rest \o parents]
        /\ UNCHANGED <<relations, pc, edge, doomed, answer, missed, raced>>

\* detect_cycle returns False: the stack is empty.
NoCycle(r) ==
    /\ pc[r] = "search"
    /\ stack[r] = <<>>
    /\ pc' = [pc EXCEPT ![r] = "insert"]
    /\ UNCHANGED <<relations, edge, visited, stack, doomed, answer, missed, raced>>

\* The row is flushed and committed.
Insert(r) ==
    /\ pc[r] = "insert"
    /\ edge[r] \notin relations
    /\ relations' = relations \cup {edge[r]}
    /\ pc' = [pc EXCEPT ![r] = "refresh"]
    /\ raced' = IF missed[r] THEN raced \cup {edge[r]} ELSE raced
    /\ missed' = [q \in Request |-> q # r /\ (missed[q] \/ pc[q] \in Adding)]
    /\ UNCHANGED <<edge, visited, stack, doomed, answer>>

\* UNIQUE (task_id, blocked_by_task_id) refuses a row that exists already.
InsertDuplicate(r) ==
    /\ pc[r] = "insert"
    /\ edge[r] \in relations
    /\ ~ Locked(r, {edge[r]})
    /\ Answer(r, 500)
    /\ UNCHANGED <<relations, raced>>

\* db.refresh reads the new row again, or fails because it is gone already.
Refresh(r) ==
    /\ pc[r] = "refresh"
    /\ Answer(r, IF edge[r] \in relations THEN 201 ELSE 500)
    /\ UNCHANGED <<relations, raced>>

\* DELETE /tasks/{t}/relations/{b}: the row is looked up first.
RemoveMissing(r, e) ==
    /\ pc[r] = "idle"
    /\ e \notin relations
    /\ Answer(r, 404)
    /\ UNCHANGED <<relations, raced>>

BeginRemove(r, e) ==
    /\ pc[r] = "idle"
    /\ e \in relations
    /\ pc' = [pc EXCEPT ![r] = "delete"]
    /\ edge' = [edge EXCEPT ![r] = e]
    /\ answer' = [answer EXCEPT ![r] = 0]
    /\ UNCHANGED <<relations, visited, stack, doomed, missed, raced>>

Delete(r) ==
    /\ pc[r] = "delete"
    /\ ~ Locked(r, {edge[r]})
    /\ doomed' = [doomed EXCEPT ![r] = relations \cap {edge[r]}]
    /\ pc' = [pc EXCEPT ![r] = "commit"]
    /\ UNCHANGED <<relations, edge, visited, stack, answer, missed, raced>>

\* DELETE /tasks/{t}: archive_task deletes every row of t, on either side.
Archive(r, t) ==
    LET rows == {e \in relations : t \in {e[1], e[2]}}
    IN  /\ pc[r] = "idle"
        /\ ~ Locked(r, rows)
        /\ doomed' = [doomed EXCEPT ![r] = rows]
        /\ pc' = [pc EXCEPT ![r] = "commit"]
        /\ answer' = [answer EXCEPT ![r] = 0]
        /\ UNCHANGED <<relations, edge, visited, stack, missed, raced>>

CommitDelete(r) ==
    /\ pc[r] = "commit"
    /\ relations' = relations \ doomed[r]
    /\ raced' = raced \ doomed[r]
    /\ Answer(r, 204)

\* The client goes away or a statement fails: nothing of r was committed but
\* the row it only had to refresh.
Abort(r) ==
    /\ pc[r] # "idle"
    /\ Answer(r, 0)
    /\ UNCHANGED <<relations, raced>>

-----------------------------------------------------------------------------
Search(r) == FoundCycle(r) \/ Visit(r) \/ NoCycle(r)

Next ==
    \E r \in Request :
        \/ \E t, b \in Task : RefuseAdd(r, t, b) \/ BeginAdd(r, t, b)
        \/ Search(r)
        \/ Insert(r)
        \/ InsertDuplicate(r)
        \/ Refresh(r)
        \/ \E e \in Edge : RemoveMissing(r, e) \/ BeginRemove(r, e)
        \/ Delete(r)
        \/ \E t \in Task : Archive(r, t)
        \/ CommitDelete(r)
        \/ Abort(r)

Spec == Init /\ [][Next]_vars

-----------------------------------------------------------------------------
Closed(E, S) == \A e \in E : e[1] \in S => e[2] \in S

\* The tasks that x waits for, directly or not, and x.
Reach(E, x) == {y \in Task : \A S \in SUBSET Task : x \in S /\ Closed(E, S) => y \in S}

AcyclicOn(E) == \A e \in E : e[1] \notin Reach(E, e[2])

\* Every cycle of tasks blocking each other has a row whose insertion missed
\* one committed during its checks: adds that do not overlap never close a
\* cycle, whatever is removed or archived under their walk.
AcyclicUnlessRaced == AcyclicOn(relations \ raced)

\* "blocked_by는 최대 {MAX_BLOCKED_BY}개까지 설정할 수 있습니다.": likewise, only
\* overlapping adds give a task more than MAX_BLOCKED_BY blockers.
LimitUnlessRaced ==
    \A t \in Task : Cardinality(Blockers(relations \ raced, t)) <= MAX_BLOCKED_BY

\* The walk of detect_cycle ends, even if the relations have cycles and grow
\* while it is under way.
SearchEnds == \A r \in Request : pc[r] = "search" ~> pc[r] # "search"

\* add_task_relation checks for cycles ("자기 참조, 사이클, 최대 10개 제한을
\* 검사합니다."), so there are none.
Acyclic == AcyclicOn(relations)
=============================================================================
