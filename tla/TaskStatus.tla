----------------------------- MODULE TaskStatus -----------------------------
(***************************************************************************)
(* Moving tasks through the workflow (api/tasks.py: update_task_status;    *)
(* services/transition_service.py: validate_transition, check_blocked_by), *)
(* while other requests add and remove blocked_by relations: this module   *)
(* composes TaskRelations, whose actions are steps of its own.             *)
(*                                                                         *)
(* A mover reads the task, validates the transition from the status it     *)
(* read, reads the blockers if the task is to be started, and writes the   *)
(* new status with a row of history.  The write is an UPDATE by primary    *)
(* key: it overwrites whatever was committed since the read.  The row lock *)
(* it takes is held until the commit that follows at once, so the two are  *)
(* one step.  A refused transition changes nothing.                        *)
(*                                                                         *)
(* stale and unsettled are history variables: the status of the task was   *)
(* written, or a blocker added or reopened, since the mover read it.       *)
(***************************************************************************)
EXTENDS Naturals, Sequences, FiniteSets

CONSTANTS Task, Request, MAX_BLOCKED_BY, MAX_CHAIN_DEPTH,   \* as in TaskRelations
          Mover,        \* request slots that move tasks
          NoTask        \* an idle mover's task

VARIABLES relations, pc, edge, visited, stack, doomed, answer, missed, raced,
          status,       \* tasks.status, committed
          step,         \* where the handler of a mover is
          moving,       \* the task of a mover
          from,         \* the status it read
          to,           \* the status it was asked for
          stale,        \* history: see above
          unsettled     \* history: see above

Relations == INSTANCE TaskRelations

relationVars == <<relations, pc, edge, visited, stack, doomed, answer, missed, raced>>
statusVars == <<status, step, moving, from, to, stale>>
vars == <<relationVars, statusVars, unsettled>>

Status == {"BACKLOG", "TODO", "PROGRESS", "REVIEW", "DONE", "REOPEN", "CLOSED"}

ALLOWED_TRANSITIONS ==
    {<<"BACKLOG", "TODO">>,
     <<"TODO", "PROGRESS">>, <<"TODO", "BACKLOG">>,
     <<"PROGRESS", "REVIEW">>, <<"PROGRESS", "TODO">>,
     <<"REVIEW", "DONE">>, <<"REVIEW", "PROGRESS">>,
     <<"DONE", "CLOSED">>, <<"DONE", "REOPEN">>,
     <<"REOPEN", "TODO">>}

Finished == {"DONE", "CLOSED"}

TypeOK ==
    /\ status \in [Task -> Status]
    /\ step \in [Mover -> {"idle", "check", "write"}]
    /\ moving \in [Mover -> Task \cup {NoTask}]
    /\ from \in [Mover -> Status]
    /\ to \in [Mover -> Status]
    /\ stale \in [Mover -> BOOLEAN]
    /\ unsettled \in [Mover -> BOOLEAN]
    /\ \A m \in Mover : step[m] # "idle" =>
          moving[m] \in Task /\ <<from[m], to[m]>> \in ALLOWED_TRANSITIONS

Init ==
    /\ Relations!Init
    /\ status = [t \in Task |-> "BACKLOG"]
    /\ step = [m \in Mover |-> "idle"]
    /\ moving = [m \in Mover |-> NoTask]
    /\ from = [m \in Mover |-> "BACKLOG"]
    /\ to = [m \in Mover |-> "BACKLOG"]
    /\ stale = [m \in Mover |-> FALSE]
    /\ unsettled = [m \in Mover |-> FALSE]

-----------------------------------------------------------------------------
\* check_blocked_by: the blockers of t that are not finished.
Unfinished(t) == {b \in Task : <<t, b>> \in relations /\ status[b] \notin Finished}

\* Mutant: only the transition TODO -> PROGRESS is checked for blockers.
BeginMoveCheckedOnce(m, t, s) ==
    /\ step[m] = "idle"
    /\ <<status[t], s>> \in ALLOWED_TRANSITIONS
    /\ step' = [step EXCEPT ![m] = IF s = "PROGRESS" /\ status[t] = "TODO"
                                   THEN "check" ELSE "write"]
    /\ moving' = [moving EXCEPT ![m] = t]
    /\ from' = [from EXCEPT ![m] = status[t]]
    /\ to' = [to EXCEPT ![m] = s]
    /\ UNCHANGED <<relationVars, status, stale, unsettled>>

\* Mutant: validate_transition(target, current).
BeginMoveSwapped(m, t, s) ==
    /\ step[m] = "idle"
    /\ <<s, status[t]>> \in ALLOWED_TRANSITIONS
    /\ step' = [step EXCEPT ![m] = IF s = "PROGRESS" THEN "check" ELSE "write"]
    /\ moving' = [moving EXCEPT ![m] = t]
    /\ from' = [from EXCEPT ![m] = status[t]]
    /\ to' = [to EXCEPT ![m] = s]
    /\ UNCHANGED <<relationVars, status, stale, unsettled>>

\* PATCH /tasks/{t}/status up to validate_transition.
BeginMove(m, t, s) ==
    /\ step[m] = "idle"
    /\ <<status[t], s>> \in ALLOWED_TRANSITIONS
    /\ step' = [step EXCEPT ![m] = IF s = "PROGRESS" THEN "check" ELSE "write"]
    /\ moving' = [moving EXCEPT ![m] = t]
    /\ from' = [from EXCEPT ![m] = status[t]]
    /\ to' = [to EXCEPT ![m] = s]
    /\ UNCHANGED <<relationVars, status, stale, unsettled>>

EndMove(m) ==
    /\ step' = [step EXCEPT ![m] = "idle"]
    /\ moving' = [moving EXCEPT ![m] = NoTask]
    /\ from' = [from EXCEPT ![m] = "BACKLOG"]
    /\ to' = [to EXCEPT ![m] = "BACKLOG"]

\* Every blocker is finished: go on to the write.
CheckBlockedBy(m) ==
    /\ step[m] = "check"
    /\ Unfinished(moving[m]) = {}
    /\ step' = [step EXCEPT ![m] = "write"]
    /\ UNCHANGED <<relationVars, status, moving, from, to, stale, unsettled>>

\* 422: a blocker is not finished.
RefuseBlocked(m) ==
    /\ step[m] = "check"
    /\ Unfinished(moving[m]) # {}
    /\ EndMove(m)
    /\ stale' = [stale EXCEPT ![m] = FALSE]
    /\ UNCHANGED <<relationVars, status, unsettled>>

\* task.status = data.status, TaskHistory, flush and commit.
WriteStatus(m) ==
    /\ step[m] = "write"
    /\ status' = [status EXCEPT ![moving[m]] = to[m]]
    /\ EndMove(m)
    /\ stale' = [n \in Mover |-> n # m /\ (stale[n] \/ moving[n] = moving[m])]
    /\ unsettled' = [n \in Mover |->
          /\ n # m
          /\ \/ unsettled[n]
             \/ /\ step[n] = "write"
                /\ <<moving[n], moving[m]>> \in relations
                /\ to[m] \notin Finished]
    /\ UNCHANGED relationVars

\* The client goes away or a statement fails before the commit.
AbortMove(m) ==
    /\ step[m] # "idle"
    /\ EndMove(m)
    /\ stale' = [stale EXCEPT ![m] = FALSE]
    /\ unsettled' = [unsettled EXCEPT ![m] = FALSE]
    /\ UNCHANGED <<relationVars, status>>

\* A request adds or removes relations next to the movers.
ChangeRelations ==
    /\ Relations!Next
    /\ UNCHANGED statusVars
    /\ unsettled' = [n \in Mover |->
          \/ unsettled[n]
          \/ step[n] = "write" /\ \E e \in relations' \ relations : e[1] = moving[n]]

-----------------------------------------------------------------------------
Move(m) ==
    \/ \E t \in Task, s \in Status : BeginMove(m, t, s)
    \/ CheckBlockedBy(m)
    \/ RefuseBlocked(m)
    \/ WriteStatus(m)
    \/ AbortMove(m)

Next == ChangeRelations \/ \E m \in Mover : Move(m)

Spec == Init /\ [][Next]_vars

-----------------------------------------------------------------------------
\* The mover whose write this step is, if it is one.
Writes(m) == step[m] = "write" /\ step'[m] = "idle" /\ status' # status

\* A status changes along ALLOWED_TRANSITIONS, unless another mover wrote the
\* task between the read and the write of this one.
LegalUnlessStale ==
    [][\A m \in Mover : Writes(m) /\ ~ stale[m] =>
          <<status[moving[m]], status'[moving[m]]>> \in ALLOWED_TRANSITIONS]_vars

\* "PROGRESS 진입 시 모든 blocked_by 작업이 DONE 또는 CLOSED여야 합니다.": a
\* task is started with all its blockers finished, unless a blocker was added
\* or reopened between the check and the write.
StartsUnblockedUnlessChanged ==
    [][\A m \in Mover : Writes(m) /\ ~ unsettled[m] /\ status'[moving[m]] = "PROGRESS" =>
          Unfinished(moving[m]) = {}]_vars

\* ALLOWED_TRANSITIONS gives CLOSED no successor: a closed task stays closed.
ClosedIsFinal == [][\A t \in Task : status[t] = "CLOSED" => status'[t] = "CLOSED"]_vars
=============================================================================
