----------------------------- MODULE MC_TaskData -----------------------------
(***************************************************************************)
(* What belongs to tasks besides their number, relations and status:       *)
(* TaskFields, Comments, Labels, Attachments and Templates, and what reads *)
(* them: TaskPages, Search and Dashboard.  They share no row that both of  *)
(* two write; the initial state picks one, and only that one moves.        *)
(***************************************************************************)
EXTENDS TaskFields, Sequences, TLC

CONSTANTS Comment, NoComment, Label, Name, NoName, File, Content, NoTemplate,
          MAX_TASKS, LIMIT, MAX_SHOWN, Sought, MAX_OFFSET,
          Project, MAX_SIZE, MAX_AGE, NoResult

VARIABLES part,
          content, watchers, cStep, comment, cCopy, text, missing, cOver,
          name, on, cloned, wasCloned, lStep, label, newName, carried, lOver,
          attached, stored, aStep, file, abandoned, deleted,
          template, made, tStep, tCopy, tData, tOver,
          listed, cursor, more, shown, steady, again,
          matches, query, next, offset, items, answer, still,
          task, cache, expired, dStep, project, result, age, told, floor, late

C == INSTANCE Comments WITH pc <- cStep, copy <- cCopy, overtaken <- cOver
L == INSTANCE Labels WITH pc <- lStep, overtaken <- lOver
A == INSTANCE Attachments WITH row <- attached, pc <- aStep
T == INSTANCE Templates WITH pc <- tStep, copy <- tCopy, data <- tData,
                             overtaken <- tOver
P == INSTANCE TaskPages
S == INSTANCE Search WITH Task <- Sought, steady <- still
D == INSTANCE Dashboard WITH pc <- dStep, shown <- told

\* The values that stand for nothing are no values; there are labels, comments, ...
ASSUME ValuesAssumption ==
    /\ Comment # {} /\ Label # {} /\ File # {} /\ Project # {}
    /\ NoName \notin Name /\ NoTemplate \notin T!Template /\ NoResult \notin D!Result

\* A body may set no field; a page holds a row at least.
ASSUME BoundsAssumption ==
    /\ MAX_FIELDS \in Nat /\ MAX_AGE \in Nat /\ MAX_OFFSET \in Nat
    /\ LIMIT \in Nat \ {0} /\ MAX_TASKS \in Nat /\ MAX_SHOWN \in Nat
    /\ IsFiniteSet(Sought) /\ IsFiniteSet(Comment)

cVars == <<content, watchers, cStep, comment, cCopy, text, missing, cOver>>
lVars == <<name, on, cloned, wasCloned, lStep, label, newName, carried, lOver>>
aVars == <<attached, stored, aStep, file, abandoned, deleted>>
tVars == <<template, made, tStep, tCopy, tData, tOver>>
pVars == <<listed, cursor, more, shown, steady, again>>
sVars == <<matches, query, next, offset, items, answer, still>>
dVars == <<task, cache, expired, dStep, project, result, age, told, floor, late>>

\* The initial values of the parts, one each where a part has many.
Still ==
    /\ C!Init /\ L!Init /\ A!Init /\ T!Init /\ D!Init
    /\ part # "fields" => row = NoTask
    /\ part # "pages" => listed = {}
    /\ part # "search" => query = <<"tag">> /\ matches = [k \in {"tag"} |-> {}] /\ offset = 0

MCInit ==
    /\ part \in {"fields", "comments", "labels", "attachments", "templates", "pages", "search",
                 "dashboard"}
    /\ Init /\ P!Init /\ S!Init /\ Still

MCNext ==
    /\ UNCHANGED part
    /\ \/ part = "fields" /\ Next /\ UNCHANGED <<cVars, lVars, aVars, tVars, pVars, sVars, dVars>>
       \/ part = "comments" /\ C!Next /\ UNCHANGED <<vars, lVars, aVars, tVars, pVars, sVars, dVars>>
       \/ part = "labels" /\ L!Next /\ UNCHANGED <<vars, cVars, aVars, tVars, pVars, sVars, dVars>>
       \/ part = "attachments" /\ A!Next /\ UNCHANGED <<vars, cVars, lVars, tVars, pVars, sVars, dVars>>
       \/ part = "templates" /\ T!Next /\ UNCHANGED <<vars, cVars, lVars, aVars, pVars, sVars, dVars>>
       \/ part = "pages" /\ P!Next /\ UNCHANGED <<vars, cVars, lVars, aVars, tVars, sVars, dVars>>
       \/ part = "search" /\ S!Next /\ UNCHANGED <<vars, cVars, lVars, aVars, tVars, pVars, dVars>>
       \/ part = "dashboard" /\ D!Next /\ UNCHANGED <<vars, cVars, lVars, aVars, tVars, pVars, sVars>>

MCSpec == MCInit /\ [][MCNext]_<<part, vars, cVars, lVars, aVars, tVars, pVars, sVars, dVars>>

\* Requests are told apart by nothing, and every property is one of safety.
Symmetry == Permutations(Request)

PartsTypeOK ==
    /\ TypeOK
    /\ C!TypeOK /\ L!TypeOK /\ A!TypeOK /\ T!TypeOK /\ P!TypeOK /\ S!TypeOK /\ D!TypeOK

MentionedWatch == C!MentionedWatch
\* What a check let through, the database refuses only if it was overtaken: a
\* watcher, a label of the project, one of the task.
RefusedOnlyIfOvertaken == C!LostOnlyIfOvertaken /\ L!RefusedOnlyIfOvertaken
RowsAndFilesAgree == A!RowsAndFilesAgree
UpdateIsKept == T!UpdateIsKept
WalkIsWhole == P!WalkIsWhole
PageIsWhole == S!PageIsWhole
ToldUnlessMixedOrLate == D!ToldUnlessMixedOrLate
=============================================================================
