------------------------------ MODULE Dashboard ------------------------------
(***************************************************************************)
(* The dashboard of a project and its cache (api/dashboard.py,             *)
(* utils/cache.py), in one process.                                        *)
(*                                                                         *)
(* A request looks in the cache, counts the tasks of the project by eight  *)
(* statements, each of which sees what is committed when it runs, and      *)
(* stores the result; nothing but time takes it out again.  Of the counts  *)
(* the last two are kept, all tasks and the finished ones.  Time is not    *)
(* measured: an entry expires at some moment.  The lock of the cache makes *)
(* a look and a store one step each.                                       *)
(*                                                                         *)
(* age, shown, floor and late are history variables: how often a project   *)
(* was changed; the greatest age of a result that was answered, now and    *)
(* when a request began; and whether the entry of a project is older than  *)
(* that.  Of a result, age and mixed are history: the age when its request *)
(* began to count, and whether the project was changed between its counts. *)
(***************************************************************************)
EXTENDS Naturals, FiniteSets

CONSTANTS Project,     \* projects
          Request,     \* request slots
          MAX_SIZE,    \* max_size
          MAX_AGE,     \* bound: so many changes of a project
          NoResult     \* no entry, and what an idle request has

VARIABLES task,        \* of each project, what has become of its task
          cache,       \* _cache
          expired,     \* the projects whose entry is past its expire_at
          pc,          \* where the handler of a request is
          project,     \* the project it is about
          result,      \* what it has counted
          age,         \* history: see above
          shown,       \* history: see above
          floor,       \* history: see above
          late         \* history: see above

rows == <<task, age>>
cached == <<cache, expired, shown, late>>
vars == <<rows, cached, pc, project, result, floor>>

\* One task is enough to tell the counts apart; an archived one is finished, too.
Status == {"none", "open", "finished", "archived"}
Result == [total : 0..1, completed : 0..1, age : 0..MAX_AGE, mixed : BOOLEAN]

Stored == {p \in Project : cache[p] # NoResult}

TypeOK ==
    /\ task \in [Project -> Status] /\ age \in [Project -> 0..MAX_AGE]
    /\ cache \in [Project -> Result \cup {NoResult}]
    /\ expired \subseteq Stored
    /\ pc \in [Request -> {"idle", "look", "total", "completed", "store"}]
    /\ project \in [Request -> Project]
    /\ result \in [Request -> Result \cup {NoResult}]
    /\ shown \in [Project -> 0..MAX_AGE] /\ floor \in [Request -> 0..MAX_AGE]
    /\ late \subseteq Stored
    /\ \A r \in Request : result[r] = NoResult <=> pc[r] \in {"idle", "look"}

Init ==
    /\ task = [p \in Project |-> "none"]
    /\ age = [p \in Project |-> 0]
    /\ cache = [p \in Project |-> NoResult] /\ expired = {}
    /\ pc = [r \in Request |-> "idle"]
    /\ project = [r \in Request |-> CHOOSE p \in Project : TRUE]
    /\ result = [r \in Request |-> NoResult]
    /\ shown = [p \in Project |-> 0] /\ floor = [r \in Request |-> 0] /\ late = {}

-----------------------------------------------------------------------------
\* The task is created, finished, reopened, archived, or another takes its place.
Change(p) ==
    /\ age[p] < MAX_AGE
    /\ \E s \in Status \ {task[p]} : task' = [task EXCEPT ![p] = s]
    /\ age' = [age EXCEPT ![p] = @ + 1]
    /\ result' = [r \in Request |-> IF project[r] = p /\ pc[r] = "completed"
                                    THEN [result[r] EXCEPT !.mixed = TRUE] ELSE result[r]]
    /\ UNCHANGED <<cached, pc, project, floor>>

Expire(p) ==
    /\ p \in Stored \ expired
    /\ expired' = expired \cup {p}
    /\ UNCHANGED <<rows, cache, shown, late, pc, project, result, floor>>

Begin(r, p) ==
    /\ pc[r] = "idle"
    /\ pc' = [pc EXCEPT ![r] = "look"]
    /\ project' = [project EXCEPT ![r] = p]
    /\ floor' = [floor EXCEPT ![r] = shown[p]]
    /\ UNCHANGED <<rows, cached, result>>

\* The request is answered.
End(r) ==
    /\ pc' = [pc EXCEPT ![r] = "idle"]
    /\ result' = [result EXCEPT ![r] = NoResult]
    /\ floor' = [floor EXCEPT ![r] = 0]
    /\ UNCHANGED <<rows, project>>

\* get: a fresh entry is the answer.
Hit(r) ==
    /\ pc[r] = "look" /\ project[r] \in Stored \ expired
    /\ End(r)
    /\ UNCHANGED cached

\* get: an entry that has expired is dropped, and the counting begins.
Miss(r) ==
    LET p == project[r]
    IN  /\ pc[r] = "look" /\ p \notin Stored \ expired
        /\ cache' = [cache EXCEPT ![p] = NoResult]
        /\ expired' = expired \ {p} /\ late' = late \ {p}
        /\ pc' = [pc EXCEPT ![r] = "total"]
        /\ result' = [result EXCEPT ![r] = [total |-> 0, completed |-> 0, age |-> age[p], mixed |-> FALSE]]
        /\ floor' = [floor EXCEPT ![r] = 0]
        /\ UNCHANGED <<rows, shown, project>>

\* COUNT of the tasks of a project with one of these.
Count(p, S) == IF task[p] \in S THEN 1 ELSE 0

\* total_tasks
CountTotal(r) ==
    /\ pc[r] = "total"
    /\ pc' = [pc EXCEPT ![r] = "completed"]
    /\ result' = [result EXCEPT ![r].total = Count(project[r], {"open", "finished"})]
    /\ UNCHANGED <<rows, cached, project, floor>>

\* completed_tasks
CountCompleted(r) ==
    /\ pc[r] = "completed"
    /\ pc' = [pc EXCEPT ![r] = "store"]
    /\ result' = [result EXCEPT ![r].completed = Count(project[r], {"finished"})]
    /\ UNCHANGED <<rows, cached, project, floor>>

\* _evict_expired
Evicted == IF Cardinality(Stored) >= MAX_SIZE THEN expired ELSE {}

\* Mutant: an entry that is there is kept.
EntryKept(r, p) ==
    IF p \in Evicted THEN NoResult
    ELSE IF p = project[r] /\ cache[p] = NoResult THEN result[r] ELSE cache[p]

\* What is in the cache after set.
Entry(r, p) ==
    IF p = project[r] THEN result[r] ELSE IF p \in Evicted THEN NoResult ELSE cache[p]

\* set, and the answer.
Store(r) ==
    LET p == project[r]
    IN  /\ pc[r] = "store"
        /\ cache' = [q \in Project |-> Entry(r, q)]
        /\ expired' = expired \ (Evicted \cup {p})
        /\ late' = (late \ (Evicted \cup {p})) \cup {q \in {p} : result[r].age < shown[p]}
        /\ shown' = [shown EXCEPT ![p] = IF result[r].age > @ THEN result[r].age ELSE @]
        /\ End(r)

\* An error of the database: 500, and nothing is stored.
Fail(r) ==
    /\ pc[r] \in {"total", "completed"}
    /\ End(r)
    /\ UNCHANGED cached

Next ==
    \/ \E p \in Project : Change(p) \/ Expire(p)
    \/ \E r \in Request :
          \/ \E p \in Project : Begin(r, p)
          \/ Hit(r) \/ Miss(r) \/ CountTotal(r) \/ CountCompleted(r) \/ Store(r) \/ Fail(r)

Spec == Init /\ [][Next]_vars

-----------------------------------------------------------------------------
\* "전체·완료 업무 수 및 완료율" (api/dashboard.py:45): no more tasks are finished than
\* there are, unless the project was changed between the two counts.
RateUnlessMixed ==
    \A p \in Stored : cache[p].completed <= cache[p].total \/ cache[p].mixed

\* "집계합니다" (api/dashboard.py:45): who asks after an answer was given is not told of
\* an older state of the project, unless a request that had begun to count before
\* has stored its result over the newer one.
NeverBackUnlessLate ==
    \A r \in Request :
       pc[r] = "look" /\ project[r] \in Stored \ expired =>
          cache[project[r]].age >= floor[r] \/ project[r] \in late

\* What the dashboard tells is of one state, and of none older than told before.
ToldUnlessMixedOrLate == RateUnlessMixed /\ NeverBackUnlessLate
=============================================================================
