------------------------------ MODULE TaskPages ------------------------------
(***************************************************************************)
(* A client that reads the tasks of a project page by page                 *)
(* (services/task_service.py: list_tasks and _apply_cursor) while tasks    *)
(* come into the list and leave it.                                        *)
(*                                                                         *)
(* A task stands for its place in the order (created_at, id): the newest   *)
(* is the greatest.  The stamp is taken before the commit, so a task may   *)
(* come in behind newer ones.  In the list are the tasks that match the    *)
(* filters and are, or are not, archived.  A cursor that cannot be parsed  *)
(* is ignored, and the walk starts again.                                  *)
(*                                                                         *)
(* shown, steady and again are history variables: the tasks the client was *)
(* sent, those in the list ever since it began, and whether a cursor of    *)
(* its own was ignored.                                                    *)
(***************************************************************************)
EXTENDS Naturals, Sequences, FiniteSets

CONSTANTS MAX_TASKS,   \* bound: so many tasks
          LIMIT,       \* limit: the size of a page
          MAX_SHOWN    \* bound: no page is fetched once so many tasks were sent

VARIABLES listed,      \* the tasks in the list
          cursor,      \* the cursor of the next page; 0 for none
          more,        \* has_more
          shown,       \* history: see above
          steady,      \* history: see above
          again        \* history: see above

vars == <<listed, cursor, more, shown, steady, again>>

Task == 1..MAX_TASKS

TypeOK ==
    /\ listed \subseteq Task
    /\ cursor \in Task \cup {0}
    /\ more \in BOOLEAN /\ (cursor # 0 => more)
    /\ shown \in Seq(Task) /\ Len(shown) < MAX_SHOWN + LIMIT
    /\ steady \subseteq listed
    /\ again \in BOOLEAN

Init ==
    /\ listed \in SUBSET Task
    /\ cursor = 0 /\ more = TRUE
    /\ shown = <<>> /\ steady = listed /\ again = FALSE

-----------------------------------------------------------------------------
\* A task is created, or changed so that the filters let it in.
Enter(t) ==
    /\ t \in Task \ listed
    /\ listed' = listed \cup {t}
    /\ UNCHANGED <<cursor, more, shown, steady, again>>

\* It is archived, or changed so that they do not.
Leave(t) ==
    /\ t \in listed
    /\ listed' = listed \ {t} /\ steady' = steady \ {t}
    /\ UNCHANGED <<cursor, more, shown, again>>

\* _apply_cursor
After(c) == {t \in listed : c = 0 \/ t < c}

\* ORDER BY created_at DESC, id DESC
Descending(S) ==
    [i \in 1..Cardinality(S) |-> CHOOSE t \in S : Cardinality({u \in S : u > t}) = i - 1]

Prefix(s, n) == SubSeq(s, 1, IF Len(s) < n THEN Len(s) ELSE n)

\* Mutant: the cursor is the row that shows that there are more.
NextCursorExtra(rows) == IF Len(rows) > LIMIT THEN rows[Len(rows)] ELSE 0

\* next_cursor: the last task of a page that is not the last.
NextCursor(rows) == IF Len(rows) > LIMIT THEN rows[LIMIT] ELSE 0

\* list_tasks: one more row than the page takes tells whether there are more.
Page(c) ==
    LET rows == Prefix(Descending(After(c)), LIMIT + 1)
    IN  /\ more /\ Len(shown) < MAX_SHOWN
        /\ shown' = shown \o Prefix(rows, LIMIT)
        /\ more' = (Len(rows) > LIMIT)
        /\ cursor' = NextCursor(rows)
        /\ UNCHANGED <<listed, steady>>

Fetch == Page(cursor) /\ UNCHANGED again

\* A cursor came back that is none: its "+" was decoded as a blank, say.
FetchMangled == cursor # 0 /\ Page(0) /\ again' = TRUE

Next == Fetch \/ FetchMangled \/ \E t \in Task : Enter(t) \/ Leave(t)

Spec == Init /\ [][Next]_vars

-----------------------------------------------------------------------------
\* "프로젝트 작업 목록을 조회합니다 (커서 기반 페이지네이션)."
\* (services/task_service.py:420): whatever comes and goes between the pages, the
\* client sees the tasks from the newest on and none of them twice, as long as its
\* cursors are understood.
NewestFirst ==
    again \/ \A i, j \in DOMAIN shown : i < j => shown[i] > shown[j]

\* Of the tasks that were in the list all the while it has seen all those from the
\* cursor on, and in the end all: no page leaves a gap.
SteadyShown ==
    \A t \in steady : \/ \E i \in DOMAIN shown : shown[i] = t
                      \/ more /\ (cursor = 0 \/ t < cursor)

\* A walk has neither repetitions nor gaps.
WalkIsWhole == NewestFirst /\ SteadyShown
=============================================================================
